---- MODULE Spec2Model ----
(***************************************************************************)
(* Model of the correlation and matching-reduction engine of kia_mbt:     *)
(*   kia_correlate/box_correlator.py     (BoxCorrelator)                  *)
(*   kia_correlate/matching_reduction.py (MatchingReduction)              *)
(*   kia_correlate/matching_threshold.py (MatchingThreshold)              *)
(*                                                                         *)
(* Numbers.  Box centers and sizes are integers; corner coordinates are   *)
(* kept doubled (units of 1/2) so that c - 0.5*w stays an integer, and    *)
(* areas are therefore in units of 1/4.  An IoU value is the pair         *)
(* <<inter, union>> standing for inter / (union + eps); eps = 1e-12 is    *)
(* far below every difference the coordinates of the model can produce,   *)
(* so comparisons treat it as a positive infinitesimal (exact in real     *)
(* arithmetic on this grid).  NaN is a value of its own for which every   *)
(* comparison is false.  Confidences are integers in 0..ConfScale         *)
(* standing for confidence / ConfScale.                                   *)
(***************************************************************************)
EXTENDS Integers, Sequences, FiniteSets, TLC

\* ------------------------------------------------------------------ bounds
MaxAnn == 2
MaxDet == 2
MaxOps == 2
MaxRows == 3
MaxOpRows == 2

\* ------------------------------------------------------------- value model
None == "None"
NaN == <<-1, -1>>
NaNConf == -1

IsNaN(v) == v = NaN

\* i1/(u1+eps) < i2/(u2+eps), false when either side is NaN
IouLess(a, b) ==
    /\ ~IsNaN(a) /\ ~IsNaN(b)
    /\ LET D == a[1] * b[2] - b[1] * a[2]
       IN  D < 0 \/ (D = 0 /\ a[1] < b[1])

\* i/(u+eps) >= tn/td, false when the value is NaN
IouGeq(v, t) ==
    /\ ~IsNaN(v)
    /\ LET D == v[1] * t[2] - t[1] * v[2]
       IN  D > 0 \/ (D = 0 /\ t[1] = 0)

\* i/(u+eps) < tn/td, false when the value is NaN
IouLt(v, t) ==
    /\ ~IsNaN(v)
    /\ LET D == v[1] * t[2] - t[1] * v[2]
       IN  D < 0 \/ (D = 0 /\ t[1] > 0)

ConfGeq(c, t) == c # NaNConf /\ c >= t
ConfLt(c, t) == c # NaNConf /\ c < t

Max2(a, b) == IF a >= b THEN a ELSE b
Min2(a, b) == IF a <= b THEN a ELSE b

\* ---------------------------------------------------------------- geometry
\* a clip bound: a finite (doubled) coordinate, or minus / plus infinity
Fin(n) == [kind |-> "fin", v |-> n]
NegInf == [kind |-> "-inf", v |-> 0]
PosInf == [kind |-> "inf", v |-> 0]

\* max(x, lo) for a lower clip bound (finite or -inf) and min(x, hi) for an
\* upper clip bound (finite or +inf)
ClipBelow(x, lo) == IF lo.kind = "-inf" THEN x ELSE Max2(x, lo.v)
ClipAbove(x, hi) == IF hi.kind = "inf" THEN x ELSE Min2(x, hi.v)

_convert_coords(center, size) ==
    [x_min |-> 2 * center[1] - size[1],
     y_min |-> 2 * center[2] - size[2],
     x_max |-> 2 * center[1] + size[1],
     y_max |-> 2 * center[2] + size[2]]

\* mutant: each corner is clipped on its own side only
_clip_coords_no_shift(b, clip_x, clip_y) ==
    LET x_max == ClipAbove(b.x_max, clip_x[2])
        y_max == ClipAbove(b.y_max, clip_y[2])
        x_min == ClipBelow(b.x_min, clip_x[1])
        y_min == ClipBelow(b.y_min, clip_y[1])
    IN  [x_min |-> x_min, y_min |-> y_min, x_max |-> x_max, y_max |-> y_max]

\* mutant: x_max is computed from x_min
_clip_coords_x_max_from_x_min(b, clip_x, clip_y) ==
    LET x_max == ClipAbove(ClipBelow(b.x_min, clip_x[1]), clip_x[2])
        y_max == ClipAbove(ClipBelow(b.y_max, clip_y[1]), clip_y[2])
        x_min == ClipBelow(ClipAbove(b.x_min, clip_x[2]), clip_x[1])
        y_min == ClipBelow(ClipAbove(b.y_min, clip_y[2]), clip_y[1])
    IN  [x_min |-> x_min, y_min |-> y_min, x_max |-> x_max, y_max |-> y_max]

_clip_coords(b, clip_x, clip_y) ==
    LET x_max == ClipAbove(ClipBelow(b.x_max, clip_x[1]), clip_x[2])
        y_max == ClipAbove(ClipBelow(b.y_max, clip_y[1]), clip_y[2])
        x_min == ClipBelow(ClipAbove(b.x_min, clip_x[2]), clip_x[1])
        y_min == ClipBelow(ClipAbove(b.y_min, clip_y[2]), clip_y[1])
    IN  [x_min |-> x_min, y_min |-> y_min, x_max |-> x_max, y_max |-> y_max]

\* mutant: the sides of the intersection are not floored at 0
IouOfBoxes_no_floor(b1, b2) ==
    LET x_min == Max2(b1.x_min, b2.x_min)
        x_max == Min2(b1.x_max, b2.x_max)
        y_min == Max2(b1.y_min, b2.y_min)
        y_max == Min2(b1.y_max, b2.y_max)
        inter_area == (x_max - x_min) * (y_max - y_min)
        box_area1 == (b1.x_max - b1.x_min) * (b1.y_max - b1.y_min)
        box_area2 == (b2.x_max - b2.x_min) * (b2.y_max - b2.y_min)
    IN  <<inter_area, box_area1 + box_area2 - inter_area>>

\* the second half of _compute_iou: intersection and union of two corner boxes
IouOfBoxes(b1, b2) ==
    LET x_min == Max2(b1.x_min, b2.x_min)
        x_max == Min2(b1.x_max, b2.x_max)
        y_min == Max2(b1.y_min, b2.y_min)
        y_max == Min2(b1.y_max, b2.y_max)
        inter_area == Max2(0, x_max - x_min) * Max2(0, y_max - y_min)
        box_area1 == (b1.x_max - b1.x_min) * (b1.y_max - b1.y_min)
        box_area2 == (b2.x_max - b2.x_min) * (b2.y_max - b2.y_min)
    IN  <<inter_area, box_area1 + box_area2 - inter_area>>

\* mutant: the boxes are not clipped
_compute_iou_unclipped(center1, size1, center2, size2, clip_x, clip_y) ==
    IouOfBoxes(_convert_coords(center1, size1), _convert_coords(center2, size2))

\* mutant: only the first box is clipped
_compute_iou_clips_first_only(center1, size1, center2, size2, clip_x, clip_y) ==
    IouOfBoxes(_clip_coords(_convert_coords(center1, size1), clip_x, clip_y),
               _convert_coords(center2, size2))

_compute_iou(center1, size1, center2, size2, clip_x, clip_y) ==
    IouOfBoxes(_clip_coords(_convert_coords(center1, size1), clip_x, clip_y),
               _clip_coords(_convert_coords(center2, size2), clip_x, clip_y))

\* ------------------------------------------------------------ table helpers
\* Python's order on the strings the model uses (sample names, class ids,
\* row indices); None never takes part in a string comparison
StrOrder == <<"a1", "a2", "a3", "a4", "c1", "c2", "d1", "d2", "d3", "d4",
              "fn", "fp", "s1", "s2", "tp">>
StrRank(s) == CHOOSE i \in 1..Len(StrOrder) : StrOrder[i] = s
StrLess(a, b) == StrRank(a) < StrRank(b)

Range(seq) == {seq[i] : i \in 1..Len(seq)}

\* all enumerations of a finite set as a sequence without repetition
Perms(S) ==
    {p \in [1..Cardinality(S) -> S] : \A i, j \in 1..Cardinality(S) : p[i] = p[j] => i = j}

\* sorted(list(...unique()))
RECURSIVE SortedList(_)
SortedList(S) ==
    IF S = {} THEN <<>>
    ELSE LET m == CHOOSE x \in S : \A y \in S : ~StrLess(y, x)
         IN  <<m>> \o SortedList(S \ {m})

\* concatenation of a sequence of sequences
RECURSIVE Flatten(_)
Flatten(ss) == IF ss = <<>> THEN <<>> ELSE Head(ss) \o Flatten(Tail(ss))

\* DataFrame.drop_duplicates(subset=col): the first row of every value stays
\* mutant: the last row of each value is kept
DropDuplicates_keep_last(df, col) ==
    LET keep == {i \in 1..Len(df) : \A j \in (i + 1)..Len(df) : df[j][col] # df[i][col]}
        F[i \in 0..Len(df)] ==
            IF i = 0 THEN <<>>
            ELSE IF i \in keep THEN Append(F[i - 1], df[i]) ELSE F[i - 1]
    IN  F[Len(df)]

DropDuplicates(df, col) ==
    LET keep == {i \in 1..Len(df) : \A j \in 1..(i - 1) : df[j][col] # df[i][col]}
        F[i \in 0..Len(df)] ==
            IF i = 0 THEN <<>>
            ELSE IF i \in keep THEN Append(F[i - 1], df[i]) ELSE F[i - 1]
    IN  F[Len(df)]

\* ------------------------------------------------------------ box correlator
_filter_for_sample_name(data_frame, sample_name) ==
    SelectSeq(data_frame, LAMBDA r : r.sample_name = sample_name)

\* mutant: the rows of every class are kept
_filter_for_class_id_keeps_all(data_frame, class_id) ==
    data_frame

_filter_for_class_id(data_frame, class_id) ==
    SelectSeq(data_frame, LAMBDA r : r.class_id = class_id)

_build_matching_entry(sample_name, annotation_index, detection_index, confusion, class_id, match_value, confidence) ==
    [sample_name |-> sample_name,
     annotation_index |-> annotation_index,
     detection_index |-> detection_index,
     confusion |-> confusion,
     class_id |-> class_id,
     match_value |-> match_value,
     confidence |-> confidence]

\* the criterion as __call__ passes it: _compute_iou with the correlator's window
Criterion(det, ann, clip_x, clip_y) ==
    _compute_iou(det.center, det.size, ann.center, ann.size, clip_x, clip_y)

\* mutant: the pair is matched only when its value is strictly above the threshold
_match_boxes_complete_strict(annotations, detections, thr, clip_x, clip_y) ==
    LET nA == Len(annotations)
        pairs == [k \in 1..(Len(detections) * nA) |->
                    <<detections[((k - 1) \div nA) + 1], annotations[((k - 1) % nA) + 1]>>]
        hits == SelectSeq(pairs, LAMBDA p :
                    LET v == Criterion(p[1], p[2], clip_x, clip_y)
                    IN  IouGeq(v, thr) /\ ~(v[1] * thr[2] = thr[1] * v[2]))
    IN  [k \in 1..Len(hits) |->
            _build_matching_entry(hits[k][2].sample_name, hits[k][2].index,
                                  hits[k][1].index, "tp", hits[k][2].class_id,
                                  Criterion(hits[k][1], hits[k][2], clip_x, clip_y),
                                  hits[k][1].confidence)]

\* tp rows of one (sample, class) slice, detections outermost
_match_boxes_complete(annotations, detections, thr, clip_x, clip_y) ==
    LET nA == Len(annotations)
        pairs == [k \in 1..(Len(detections) * nA) |->
                    <<detections[((k - 1) \div nA) + 1], annotations[((k - 1) % nA) + 1]>>]
        hits == SelectSeq(pairs, LAMBDA p : IouGeq(Criterion(p[1], p[2], clip_x, clip_y), thr))
    IN  [k \in 1..Len(hits) |->
            _build_matching_entry(hits[k][2].sample_name, hits[k][2].index,
                                  hits[k][1].index, "tp", hits[k][2].class_id,
                                  Criterion(hits[k][1], hits[k][2], clip_x, clip_y),
                                  hits[k][1].confidence)]

\* detections.sort_values(by=confidence_col, ascending=False): a single-key sort
\* with pandas' default kind (quicksort), which fixes no order among equal
\* confidences; every order with non-increasing confidence is an outcome
SortedDetections(detections) ==
    {[k \in 1..Len(detections) |-> detections[p[k]]] :
        p \in {q \in Perms(1..Len(detections)) :
                 \A i, j \in 1..Len(detections) :
                    i < j => detections[q[i]].confidence >= detections[q[j]].confidence}}

\* the inner loop of _match_boxes_exclusive: position of the annotation with
\* the largest criterion value, the first one among equals (0: none)
MaxAnnPos(det, annotations, clip_x, clip_y) ==
    LET val(j) == Criterion(det, annotations[j], clip_x, clip_y)
        B[j \in 0..Len(annotations)] ==
            IF j = 0 THEN 0
            ELSE IF B[j - 1] = 0 THEN (IF IsNaN(val(j)) THEN 0 ELSE j)
            ELSE IF IouLess(val(B[j - 1]), val(j)) THEN j
            ELSE B[j - 1]
    IN  B[Len(annotations)]

\* mutant: an annotation that is already claimed is matched again
AppendBestMatch_reclaim(acc, det, m, annotations, thr, clip_x, clip_y) ==
    IF m = 0 THEN acc
    ELSE LET max_match_value == Criterion(det, annotations[m], clip_x, clip_y)
         IN  IF IouGeq(max_match_value, thr)
             THEN Append(acc,
                    _build_matching_entry(
                        annotations[Len(annotations)].sample_name,
                        annotations[m].index, det.index, "tp",
                        annotations[m].class_id,
                        max_match_value, det.confidence))
             ELSE acc

\* the end of one round of the detection loop of _match_boxes_exclusive: the
\* tp list acc with the match of det and its best annotation (at position m,
\* 0: none) appended if the value meets the threshold and the annotation is
\* not yet in acc
AppendBestMatch(acc, det, m, annotations, thr, clip_x, clip_y) ==
    IF m = 0 THEN acc
    ELSE LET max_match_value == Criterion(det, annotations[m], clip_x, clip_y)
             max_ann_id == annotations[m].index
         IN  IF IouGeq(max_match_value, thr)
                /\ max_ann_id \notin {r.annotation_index : r \in Range(acc)}
             THEN Append(acc,
                    _build_matching_entry(
                        annotations[Len(annotations)].sample_name,
                        max_ann_id, det.index, "tp",
                        annotations[m].class_id,
                        max_match_value, det.confidence))
             ELSE acc

\* tp rows of one (sample, class) slice for one order of the sorted detections
_match_boxes_exclusive(annotations, sorted_detections, thr, clip_x, clip_y) ==
    LET T[k \in 0..Len(sorted_detections)] ==
            IF k = 0 THEN <<>>
            ELSE AppendBestMatch(T[k - 1], sorted_detections[k],
                                 MaxAnnPos(sorted_detections[k], annotations, clip_x, clip_y),
                                 annotations, thr, clip_x, clip_y)
    IN  T[Len(sorted_detections)]

\* mutant: the complete policy is used whatever the matching type
_match_boxes_always_complete(mtype, annotations, detections, thr, clip_x, clip_y) ==
    {_match_boxes_complete(annotations, detections, thr, clip_x, clip_y)}

\* every tp list _match_boxes can return for a slice
_match_boxes(mtype, annotations, detections, thr, clip_x, clip_y) ==
    IF mtype = "complete"
    THEN {_match_boxes_complete(annotations, detections, thr, clip_x, clip_y)}
    ELSE {_match_boxes_exclusive(annotations, sd, thr, clip_x, clip_y) :
            sd \in SortedDetections(detections)}

\* mutant: every detection of the slice is reported as fp, matched or not
SliceOutcomes_all_fp(mtype, annotations_class, detections_class, sample_name, class_id, thr, clip_x, clip_y) ==
    UNION {
      LET matched_annotation_ids == {r.annotation_index : r \in Range(tp_matches)}
          fn_annotation_ids ==
              {a.index : a \in Range(annotations_class)} \ matched_annotation_ids
      IN  {tp_matches
             \o [k \in 1..Len(fp) |->
                   _build_matching_entry(sample_name, None, fp[k].index, "fp",
                                         class_id, NaN, fp[k].confidence)]
             \o [k \in 1..Len(fn) |->
                   _build_matching_entry(sample_name, fn[k], None, "fn",
                                         class_id, NaN, NaNConf)] :
            fp \in Perms(Range(detections_class)), fn \in Perms(fn_annotation_ids)}
      : tp_matches \in _match_boxes(mtype, annotations_class, detections_class,
                                    thr, clip_x, clip_y)}

\* the rows match() appends for one (sample_name, class_id): the tp rows, then
\* one fp row per unmatched detection and one fn row per unmatched annotation,
\* each group in the iteration order of a Python set (any order)
SliceOutcomes(mtype, annotations_class, detections_class, sample_name, class_id, thr, clip_x, clip_y) ==
    UNION {
      LET matched_annotation_ids == {r.annotation_index : r \in Range(tp_matches)}
          matched_detection_ids == {r.detection_index : r \in Range(tp_matches)}
          fp_detection_ids ==
              {d \in Range(detections_class) : d.index \notin matched_detection_ids}
          fn_annotation_ids ==
              {a.index : a \in Range(annotations_class)} \ matched_annotation_ids
      IN  {tp_matches
             \o [k \in 1..Len(fp) |->
                   _build_matching_entry(sample_name, None, fp[k].index, "fp",
                                         class_id, NaN, fp[k].confidence)]
             \o [k \in 1..Len(fn) |->
                   _build_matching_entry(sample_name, fn[k], None, "fn",
                                         class_id, NaN, NaNConf)] :
            fp \in Perms(fp_detection_ids), fn \in Perms(fn_annotation_ids)}
      : tp_matches \in _match_boxes(mtype, annotations_class, detections_class,
                                    thr, clip_x, clip_y)}

\* mutant: the sample names are taken from both tables
match_samples_of_both_tables(mtype, annotation_data, detection_data, thr, clip_x, clip_y) ==
    LET sample_name_list == SortedList({r.sample_name : r \in Range(annotation_data)}
                       \cup {r.sample_name : r \in Range(detection_data)})
        class_id_list ==
            SortedList({r.class_id : r \in Range(annotation_data)}
                       \cup {r.class_id : r \in Range(detection_data)})
        nC == Len(class_id_list)
        nP == Len(sample_name_list) * nC
        slice(k) ==
            LET sample_name == sample_name_list[((k - 1) \div nC) + 1]
                class_id == class_id_list[((k - 1) % nC) + 1]
            IN  SliceOutcomes(mtype,
                    _filter_for_class_id(
                        _filter_for_sample_name(annotation_data, sample_name), class_id),
                    _filter_for_class_id(
                        _filter_for_sample_name(detection_data, sample_name), class_id),
                    sample_name, class_id, thr, clip_x, clip_y)
        M[k \in 0..nP] ==
            IF k = 0 THEN {<<>>}
            ELSE {m \o rows : m \in M[k - 1], rows \in slice(k)}
    IN  M[nP]

\* BoxCorrelator.match: every table the call can return
match(mtype, annotation_data, detection_data, thr, clip_x, clip_y) ==
    LET sample_name_list == SortedList({r.sample_name : r \in Range(annotation_data)})
        class_id_list ==
            SortedList({r.class_id : r \in Range(annotation_data)}
                       \cup {r.class_id : r \in Range(detection_data)})
        nC == Len(class_id_list)
        nP == Len(sample_name_list) * nC
        slice(k) ==
            LET sample_name == sample_name_list[((k - 1) \div nC) + 1]
                class_id == class_id_list[((k - 1) % nC) + 1]
            IN  SliceOutcomes(mtype,
                    _filter_for_class_id(
                        _filter_for_sample_name(annotation_data, sample_name), class_id),
                    _filter_for_class_id(
                        _filter_for_sample_name(detection_data, sample_name), class_id),
                    sample_name, class_id, thr, clip_x, clip_y)
        M[k \in 0..nP] ==
            IF k = 0 THEN {<<>>}
            ELSE {m \o rows : m \in M[k - 1], rows \in slice(k)}
    IN  M[nP]

\* ------------------------------------------------------- sorting DataFrames
\* a string key with nulls last (na_position="last")
NullLastLess(a, b) == a # None /\ (b = None \/ StrLess(a, b))

\* mutant: the sort keys are taken in the order [match_value, confidence]
ConfidenceIouBefore_iou_first(a, b) ==
    \/ (~IsNaN(a.match_value) /\ IsNaN(b.match_value))
    \/ IouLess(b.match_value, a.match_value)
    \/ /\ a.match_value = b.match_value
       /\ a.confidence # NaNConf
       /\ (b.confidence = NaNConf \/ a.confidence > b.confidence)

\* by=[confidence, match_value], ascending=(False, False), NaN last
ConfidenceIouBefore(a, b) ==
    \/ (a.confidence # NaNConf /\ b.confidence = NaNConf)
    \/ (a.confidence # NaNConf /\ b.confidence # NaNConf /\ a.confidence > b.confidence)
    \/ /\ a.confidence = b.confidence
       /\ \/ (~IsNaN(a.match_value) /\ IsNaN(b.match_value))
          \/ IouLess(b.match_value, a.match_value)

\* by=[class_id, confusion, annotation_index, detection_index],
\* ascending=[True, False, True, True], na_position="last"
\* mutant: the confusion key is sorted ascending (fn, fp, tp)
OutputBefore_confusion_ascending(a, b) ==
    \/ StrLess(a.class_id, b.class_id)
    \/ /\ a.class_id = b.class_id
       /\ \/ StrLess(a.confusion, b.confusion)
          \/ /\ a.confusion = b.confusion
             /\ \/ NullLastLess(a.annotation_index, b.annotation_index)
                \/ /\ a.annotation_index = b.annotation_index
                   /\ NullLastLess(a.detection_index, b.detection_index)

OutputBefore(a, b) ==
    \/ StrLess(a.class_id, b.class_id)
    \/ /\ a.class_id = b.class_id
       /\ \/ StrLess(b.confusion, a.confusion)
          \/ /\ a.confusion = b.confusion
             /\ \/ NullLastLess(a.annotation_index, b.annotation_index)
                \/ /\ a.annotation_index = b.annotation_index
                   /\ NullLastLess(a.detection_index, b.detection_index)

\* the strict order of the sort keys named by
Before(by, a, b) ==
    IF by = "confidence_iou" THEN ConfidenceIouBefore(a, b) ELSE OutputBefore(a, b)

\* DataFrame.sort_values on several keys: a stable sort (pandas uses a stable
\* lexsort), rows with equal keys keep their order
SortValues(df, by) ==
    LET Insert(acc, r) ==
            LET notAfter == {i \in 1..Len(acc) : ~Before(by, r, acc[i])}
                pos == IF notAfter = {} THEN 0
                       ELSE CHOOSE i \in notAfter : \A j \in notAfter : j <= i
            IN  SubSeq(acc, 1, pos) \o <<r>> \o SubSeq(acc, pos + 1, Len(acc))
        S[k \in 0..Len(df)] == IF k = 0 THEN <<>> ELSE Insert(S[k - 1], df[k])
    IN  S[Len(df)]

SortOutput(df, sort_output) == IF sort_output THEN SortValues(df, "output") ELSE df

WithConfusion(df, c) == SelectSeq(df, LAMBDA r : r.confusion = c)

\* mutant: the fn row keeps the confidence of the tp row it comes from
AsFalseNegative_keeps_confidence(r) ==
    [r EXCEPT !.detection_index = None, !.confusion = "fn", !.match_value = NaN]

\* a demoted tp row rewritten as the fn row of its annotation
AsFalseNegative(r) ==
    [r EXCEPT !.detection_index = None, !.confusion = "fn",
              !.match_value = NaN, !.confidence = NaNConf]

\* mutant: the fp row keeps the match_value of the tp row it comes from
AsFalsePositive_keeps_match_value(r) ==
    [r EXCEPT !.annotation_index = None, !.confusion = "fp"]

\* a demoted tp row rewritten as the fp row of its detection
AsFalsePositive(r) ==
    [r EXCEPT !.annotation_index = None, !.confusion = "fp", !.match_value = NaN]

\* the rows of df with the first row of every value of col rewritten as fn / fp
\* mutant: no fn row is written
NewFalseNegatives_none(df) ==
    <<>>

NewFalseNegatives(df) ==
    LET u == DropDuplicates(df, "annotation_index")
    IN  [k \in 1..Len(u) |-> AsFalseNegative(u[k])]
NewFalsePositives(df) ==
    LET u == DropDuplicates(df, "detection_index")
    IN  [k \in 1..Len(u) |-> AsFalsePositive(u[k])]

\* sorted(list(matching["sample_name"].unique()))
SampleNames(matching) == SortedList({r.sample_name : r \in Range(matching)})

\* ---------------------------------------------------------- matching reduction
\* mutant: the detections of discarded tp rows are not reported as fp
ReduceSample_no_fp_update(sample_matching, sort_output) ==
    LET tp_sample_data == WithConfusion(sample_matching, "tp")
        fp_keep == WithConfusion(sample_matching, "fp")
        fn_keep == WithConfusion(sample_matching, "fn")
        tp_sample_sorted == SortValues(tp_sample_data, "confidence_iou")
        tp_annotation_ids == {r.annotation_index : r \in Range(tp_sample_sorted)}
        possible_matches == DropDuplicates(tp_sample_sorted, "detection_index")
        tp_keep == DropDuplicates(possible_matches, "annotation_index")
        keep_annotation_ids == {r.annotation_index : r \in Range(tp_keep)}
        new_fn_annotation_ids == tp_annotation_ids \ keep_annotation_ids
        fn_update ==
            NewFalseNegatives(
                SelectSeq(tp_sample_sorted,
                          LAMBDA r : r.annotation_index \in new_fn_annotation_ids))
    IN  SortOutput(tp_keep \o fp_keep \o fn_keep \o fn_update, sort_output)

\* mutant: the fn rows of the input are not carried over
ReduceSample_no_fn_keep(sample_matching, sort_output) ==
    LET tp_sample_data == WithConfusion(sample_matching, "tp")
        fp_keep == WithConfusion(sample_matching, "fp")
        tp_sample_sorted == SortValues(tp_sample_data, "confidence_iou")
        tp_annotation_ids == {r.annotation_index : r \in Range(tp_sample_sorted)}
        tp_detection_ids == {r.detection_index : r \in Range(tp_sample_sorted)}
        possible_matches == DropDuplicates(tp_sample_sorted, "detection_index")
        tp_keep == DropDuplicates(possible_matches, "annotation_index")
        keep_annotation_ids == {r.annotation_index : r \in Range(tp_keep)}
        keep_detection_ids == {r.detection_index : r \in Range(tp_keep)}
        new_fn_annotation_ids == tp_annotation_ids \ keep_annotation_ids
        new_fp_detection_ids == tp_detection_ids \ keep_detection_ids
        fn_update ==
            NewFalseNegatives(
                SelectSeq(tp_sample_sorted,
                          LAMBDA r : r.annotation_index \in new_fn_annotation_ids))
        fp_update ==
            NewFalsePositives(
                SelectSeq(tp_sample_sorted,
                          LAMBDA r : r.detection_index \in new_fp_detection_ids))
    IN  SortOutput(tp_keep \o fp_keep \o fp_update \o fn_update, sort_output)

\* mutant: the tp rows are deduplicated by detection_index only
ReduceSample_no_annotation_dedupe(sample_matching, sort_output) ==
    LET tp_sample_data == WithConfusion(sample_matching, "tp")
        fp_keep == WithConfusion(sample_matching, "fp")
        fn_keep == WithConfusion(sample_matching, "fn")
        tp_sample_sorted == SortValues(tp_sample_data, "confidence_iou")
        tp_annotation_ids == {r.annotation_index : r \in Range(tp_sample_sorted)}
        tp_detection_ids == {r.detection_index : r \in Range(tp_sample_sorted)}
        tp_keep == DropDuplicates(tp_sample_sorted, "detection_index")
        keep_annotation_ids == {r.annotation_index : r \in Range(tp_keep)}
        keep_detection_ids == {r.detection_index : r \in Range(tp_keep)}
        new_fn_annotation_ids == tp_annotation_ids \ keep_annotation_ids
        new_fp_detection_ids == tp_detection_ids \ keep_detection_ids
        fn_update ==
            NewFalseNegatives(
                SelectSeq(tp_sample_sorted,
                          LAMBDA r : r.annotation_index \in new_fn_annotation_ids))
        fp_update ==
            NewFalsePositives(
                SelectSeq(tp_sample_sorted,
                          LAMBDA r : r.detection_index \in new_fp_detection_ids))
    IN  SortOutput(tp_keep \o fp_keep \o fp_update \o fn_keep \o fn_update, sort_output)

ReduceSample(sample_matching, sort_output) ==
    LET tp_sample_data == WithConfusion(sample_matching, "tp")
        fp_keep == WithConfusion(sample_matching, "fp")
        fn_keep == WithConfusion(sample_matching, "fn")
        tp_sample_sorted == SortValues(tp_sample_data, "confidence_iou")
        tp_annotation_ids == {r.annotation_index : r \in Range(tp_sample_sorted)}
        tp_detection_ids == {r.detection_index : r \in Range(tp_sample_sorted)}
        possible_matches == DropDuplicates(tp_sample_sorted, "detection_index")
        tp_keep == DropDuplicates(possible_matches, "annotation_index")
        keep_annotation_ids == {r.annotation_index : r \in Range(tp_keep)}
        keep_detection_ids == {r.detection_index : r \in Range(tp_keep)}
        new_fn_annotation_ids == tp_annotation_ids \ keep_annotation_ids
        new_fp_detection_ids == tp_detection_ids \ keep_detection_ids
        fn_update ==
            NewFalseNegatives(
                SelectSeq(tp_sample_sorted,
                          LAMBDA r : r.annotation_index \in new_fn_annotation_ids))
        fp_update ==
            NewFalsePositives(
                SelectSeq(tp_sample_sorted,
                          LAMBDA r : r.detection_index \in new_fp_detection_ids))
    IN  SortOutput(tp_keep \o fp_keep \o fp_update \o fn_keep \o fn_update, sort_output)

\* mutant: without the branch for an empty list of samples, pd.concat of
\* nothing raises ValueError; the error stands in the place of the table
reduce_to_exclusive_concat_of_nothing(matching, sort_output) ==
    LET sample_names == SampleNames(matching)
    IN  IF Len(sample_names) = 0
        THEN <<_build_matching_entry(None, None, None, "ValueError", None, NaN, NaNConf)>>
        ELSE Flatten([k \in 1..Len(sample_names) |->
                        ReduceSample(_filter_for_sample_name(matching, sample_names[k]),
                                     sort_output)])

\* mutant: the whole table is reduced as if it were one sample
reduce_to_exclusive_one_pass(matching, sort_output) ==
    ReduceSample(matching, sort_output)

reduce_to_exclusive(matching, sort_output) ==
    LET sample_names == SampleNames(matching)
    IN  Flatten([k \in 1..Len(sample_names) |->
                   ReduceSample(_filter_for_sample_name(matching, sample_names[k]),
                                sort_output)])

\* ----------------------------------------------------------- matching threshold
\* mutant: a tp row whose match_value equals the threshold is discarded
IouThresholdSample_strict(sample_matching, iou_threshold, sort_output) ==
    LET fp_keep == WithConfusion(sample_matching, "fp")
        fn_keep == WithConfusion(sample_matching, "fn")
        tp_data == WithConfusion(sample_matching, "tp")
        tp_check == SelectSeq(tp_data, LAMBDA r :
                        IouLt(r.match_value, iou_threshold)
                        \/ r.match_value[1] * iou_threshold[2]
                              = iou_threshold[1] * r.match_value[2])
        tp_keep == SelectSeq(tp_data, LAMBDA r :
                        IouGeq(r.match_value, iou_threshold)
                        /\ r.match_value[1] * iou_threshold[2]
                              # iou_threshold[1] * r.match_value[2])
        annotation_ids_keep == {r.annotation_index : r \in Range(tp_keep)}
        detection_ids_keep == {r.detection_index : r \in Range(tp_keep)}
        fn_update ==
            NewFalseNegatives(
                SelectSeq(tp_check,
                          LAMBDA r : r.annotation_index \notin annotation_ids_keep))
        fp_update ==
            NewFalsePositives(
                SelectSeq(tp_check,
                          LAMBDA r : r.detection_index \notin detection_ids_keep))
    IN  SortOutput(tp_keep \o fp_keep \o fp_update \o fn_keep \o fn_update, sort_output)

\* mutant: every annotation of a discarded tp row is reported as fn, also
\* when a kept tp row still carries it
IouThresholdSample_no_keep_check(sample_matching, iou_threshold, sort_output) ==
    LET fp_keep == WithConfusion(sample_matching, "fp")
        fn_keep == WithConfusion(sample_matching, "fn")
        tp_data == WithConfusion(sample_matching, "tp")
        tp_keep == SelectSeq(tp_data, LAMBDA r : IouGeq(r.match_value, iou_threshold))
        tp_check == SelectSeq(tp_data, LAMBDA r : IouLt(r.match_value, iou_threshold))
        detection_ids_keep == {r.detection_index : r \in Range(tp_keep)}
        fn_update == NewFalseNegatives(tp_check)
        fp_update ==
            NewFalsePositives(
                SelectSeq(tp_check,
                          LAMBDA r : r.detection_index \notin detection_ids_keep))
    IN  SortOutput(tp_keep \o fp_keep \o fp_update \o fn_keep \o fn_update, sort_output)

\* mutant: the fp rows of the input are left out
IouThresholdSample_no_fp_keep(sample_matching, iou_threshold, sort_output) ==
    LET fp_keep == WithConfusion(sample_matching, "fp")
        fn_keep == WithConfusion(sample_matching, "fn")
        tp_data == WithConfusion(sample_matching, "tp")
        tp_keep == SelectSeq(tp_data, LAMBDA r : IouGeq(r.match_value, iou_threshold))
        tp_check == SelectSeq(tp_data, LAMBDA r : IouLt(r.match_value, iou_threshold))
        annotation_ids_keep == {r.annotation_index : r \in Range(tp_keep)}
        detection_ids_keep == {r.detection_index : r \in Range(tp_keep)}
        fn_update ==
            NewFalseNegatives(
                SelectSeq(tp_check,
                          LAMBDA r : r.annotation_index \notin annotation_ids_keep))
        fp_update ==
            NewFalsePositives(
                SelectSeq(tp_check,
                          LAMBDA r : r.detection_index \notin detection_ids_keep))
    IN  SortOutput(tp_keep \o fp_update \o fn_keep \o fn_update, sort_output)

IouThresholdSample(sample_matching, iou_threshold, sort_output) ==
    LET fp_keep == WithConfusion(sample_matching, "fp")
        fn_keep == WithConfusion(sample_matching, "fn")
        tp_data == WithConfusion(sample_matching, "tp")
        tp_keep == SelectSeq(tp_data, LAMBDA r : IouGeq(r.match_value, iou_threshold))
        tp_check == SelectSeq(tp_data, LAMBDA r : IouLt(r.match_value, iou_threshold))
        annotation_ids_keep == {r.annotation_index : r \in Range(tp_keep)}
        detection_ids_keep == {r.detection_index : r \in Range(tp_keep)}
        fn_update ==
            NewFalseNegatives(
                SelectSeq(tp_check,
                          LAMBDA r : r.annotation_index \notin annotation_ids_keep))
        fp_update ==
            NewFalsePositives(
                SelectSeq(tp_check,
                          LAMBDA r : r.detection_index \notin detection_ids_keep))
    IN  SortOutput(tp_keep \o fp_keep \o fp_update \o fn_keep \o fn_update, sort_output)

apply_iou_threshold(matching, iou_threshold, sort_output) ==
    LET sample_names == SampleNames(matching)
    IN  Flatten([k \in 1..Len(sample_names) |->
                   IouThresholdSample(_filter_for_sample_name(matching, sample_names[k]),
                                      iou_threshold, sort_output)])

\* mutant: the fp rows are kept whatever their confidence
ConfidenceThresholdSample_keeps_fp(sample_matching, confidence_threshold, sort_output) ==
    LET fn_keep == WithConfusion(sample_matching, "fn")
        fp_keep == WithConfusion(sample_matching, "fp")
        tp_data == WithConfusion(sample_matching, "tp")
        tp_keep == SelectSeq(tp_data, LAMBDA r : ConfGeq(r.confidence, confidence_threshold))
        tp_check == SelectSeq(tp_data, LAMBDA r : ConfLt(r.confidence, confidence_threshold))
        annotation_ids_keep == {r.annotation_index : r \in Range(tp_keep)}
        fn_update ==
            NewFalseNegatives(
                SelectSeq(tp_check,
                          LAMBDA r : r.annotation_index \notin annotation_ids_keep))
    IN  SortOutput(tp_keep \o fp_keep \o fn_keep \o fn_update, sort_output)

\* mutant: the fn rows of the input are left out
ConfidenceThresholdSample_no_fn_keep(sample_matching, confidence_threshold, sort_output) ==
    LET fn_keep == WithConfusion(sample_matching, "fn")
        fp_check == WithConfusion(sample_matching, "fp")
        fp_keep == SelectSeq(fp_check, LAMBDA r : ConfGeq(r.confidence, confidence_threshold))
        tp_data == WithConfusion(sample_matching, "tp")
        tp_keep == SelectSeq(tp_data, LAMBDA r : ConfGeq(r.confidence, confidence_threshold))
        tp_check == SelectSeq(tp_data, LAMBDA r : ConfLt(r.confidence, confidence_threshold))
        annotation_ids_keep == {r.annotation_index : r \in Range(tp_keep)}
        fn_update ==
            NewFalseNegatives(
                SelectSeq(tp_check,
                          LAMBDA r : r.annotation_index \notin annotation_ids_keep))
    IN  SortOutput(tp_keep \o fp_keep \o fn_update, sort_output)

ConfidenceThresholdSample(sample_matching, confidence_threshold, sort_output) ==
    LET fn_keep == WithConfusion(sample_matching, "fn")
        fp_check == WithConfusion(sample_matching, "fp")
        fp_keep == SelectSeq(fp_check, LAMBDA r : ConfGeq(r.confidence, confidence_threshold))
        tp_data == WithConfusion(sample_matching, "tp")
        tp_keep == SelectSeq(tp_data, LAMBDA r : ConfGeq(r.confidence, confidence_threshold))
        tp_check == SelectSeq(tp_data, LAMBDA r : ConfLt(r.confidence, confidence_threshold))
        annotation_ids_keep == {r.annotation_index : r \in Range(tp_keep)}
        fn_update ==
            NewFalseNegatives(
                SelectSeq(tp_check,
                          LAMBDA r : r.annotation_index \notin annotation_ids_keep))
    IN  SortOutput(tp_keep \o fp_keep \o fn_keep \o fn_update, sort_output)

apply_confidence_threshold(matching, confidence_threshold, sort_output) ==
    LET sample_names == SampleNames(matching)
    IN  Flatten([k \in 1..Len(sample_names) |->
                   ConfidenceThresholdSample(
                       _filter_for_sample_name(matching, sample_names[k]),
                       confidence_threshold, sort_output)])

\* ------------------------------------------------------------------ the state
VARIABLES
    annotation_data,   \* the annotation table: rows in table order
    detection_data,    \* the prediction table: rows in table order
    correlator,        \* the constructed BoxCorrelator's attributes
    matching,          \* the current match table
    source,            \* the table the last operation was called on
    last_op,           \* the last operation and its arguments
    iou_floor,         \* the IoU thresholds applied so far (correlator's included)
    ops,               \* number of table operations applied after correlate
    sort_outputs,      \* the values callers pass as sort_output
    call               \* the last direct call of a constructor or helper method:
                       \* its name, its arguments and what it returned

vars == <<annotation_data, detection_data, correlator, matching, source,
          last_op, iou_floor, ops, sort_outputs, call>>

\* ------------------------------------------------------------------- inputs
\* the (sample_name, class_id) pairs a row of an input table can carry
Partitions == {<<"s1", "c1">>, <<"s1", "c2">>, <<"s2", "c1">>}
Centers == {<<0, 1>>, <<2, 1>>}
Sizes == {<<2, 2>>}
Confidences == {1, 2}
ConfidenceThresholds == {2}
IouThresholds == {<<0, 1>>, <<1, 2>>, <<1, 1>>}
MatchingTypes == {"complete", "exclusive"}

AnnotationIds == <<"a1", "a2", "a3", "a4">>
DetectionIds == <<"d1", "d2", "d3", "d4">>

\* annotation tables: unique index, sample_name, class_id, center, size
AnnotationTables ==
    UNION {[1..n -> {[sample_name |-> p[1], class_id |-> p[2], center |-> c, size |-> z] :
                        p \in Partitions, c \in Centers, z \in Sizes}] : n \in 0..MaxAnn}

\* prediction tables: the same columns and a confidence
DetectionTables ==
    UNION {[1..n -> {[sample_name |-> p[1], class_id |-> p[2], center |-> c, size |-> z,
                      confidence |-> f] :
                        p \in Partitions, c \in Centers, z \in Sizes, f \in Confidences}] :
           n \in 0..MaxDet}

WithIndex(rows, ids) ==
    [k \in 1..Len(rows) |->
        [index |-> ids[k]] @@ rows[k]]

\* a keyword argument that is not passed
NotGiven == <<>>

\* mutant: an unknown matching_type falls back to the complete policy
BoxCorrelator_fallback(threshold, matching_type, clip_truncated_boxes, clip_x, clip_y) ==
    [raised |-> None,
     threshold |-> threshold,
     matching_type |-> IF matching_type = "exclusive" THEN "exclusive" ELSE "complete",
     clip_x |-> IF clip_truncated_boxes
                THEN (IF clip_x = NotGiven THEN <<Fin(0), Fin(2 * 1920)>> ELSE clip_x)
                ELSE <<NegInf, PosInf>>,
     clip_y |-> IF clip_truncated_boxes
                THEN (IF clip_y = NotGiven THEN <<Fin(0), Fin(2 * 1280)>> ELSE clip_y)
                ELSE <<NegInf, PosInf>>]

\* mutant: explicit clip_x / clip_y are used also when clip_truncated_boxes is false
BoxCorrelator_explicit_first(threshold, matching_type, clip_truncated_boxes, clip_x, clip_y) ==
    IF matching_type \notin {"complete", "exclusive"}
    THEN [raised |-> "RuntimeError"]
    ELSE [raised |-> None,
          threshold |-> threshold,
          matching_type |-> matching_type,
          clip_x |-> IF clip_x # NotGiven THEN clip_x
                     ELSE IF clip_truncated_boxes THEN <<Fin(0), Fin(2 * 1920)>>
                     ELSE <<NegInf, PosInf>>,
          clip_y |-> IF clip_y # NotGiven THEN clip_y
                     ELSE IF clip_truncated_boxes THEN <<Fin(0), Fin(2 * 1280)>>
                     ELSE <<NegInf, PosInf>>]

\* BoxCorrelator.__init__: the attributes of the constructed object, or the
\* error raised; clip_x and clip_y are the keyword arguments (NotGiven: absent,
\* kwargs.get returns None)
BoxCorrelator(threshold, matching_type, clip_truncated_boxes, clip_x, clip_y) ==
    IF matching_type \notin {"complete", "exclusive"}
    THEN [raised |-> "RuntimeError"]
    ELSE [raised |-> None,
          threshold |-> threshold,
          matching_type |-> matching_type,
          clip_x |-> IF clip_truncated_boxes
                     THEN (IF clip_x = NotGiven THEN <<Fin(0), Fin(2 * 1920)>> ELSE clip_x)
                     ELSE <<NegInf, PosInf>>,
          clip_y |-> IF clip_truncated_boxes
                     THEN (IF clip_y = NotGiven THEN <<Fin(0), Fin(2 * 1280)>> ELSE clip_y)
                     ELSE <<NegInf, PosInf>>]

\* BoxCorrelator(threshold=..., matching_type=..., clip_truncated_boxes=...)
NewCorrelator(threshold, matching_type, clip_truncated_boxes) ==
    BoxCorrelator(threshold, matching_type, clip_truncated_boxes, NotGiven, NotGiven)

NoCall == [fn |-> "none"]

NoOp == [name |-> "none", threshold |-> <<0, 1>>, confidence |-> 0, sort_output |-> FALSE]

Init ==
    /\ \E a \in AnnotationTables : annotation_data = WithIndex(a, AnnotationIds)
    /\ \E d \in DetectionTables : detection_data = WithIndex(d, DetectionIds)
    /\ \E t \in IouThresholds \ {<<1, 1>>}, m \in MatchingTypes :
          correlator = NewCorrelator(t, m, TRUE)
    /\ matching = <<>>
    /\ source = <<>>
    /\ last_op = NoOp
    /\ iou_floor = {}
    /\ ops = 0
    /\ sort_outputs = {TRUE}
    /\ call = NoCall

\* matching = box_correlator(annotation_data, detection_data)
Correlate ==
    /\ correlator.raised = None
    /\ last_op.name = "none"
    /\ matching' \in match(correlator.matching_type, annotation_data, detection_data,
                           correlator.threshold, correlator.clip_x, correlator.clip_y)
    /\ source' = <<>>
    /\ last_op' = [NoOp EXCEPT !.name = "correlate", !.threshold = correlator.threshold]
    /\ iou_floor' = {correlator.threshold}
    /\ UNCHANGED <<annotation_data, detection_data, correlator, ops, sort_outputs, call>>

\* matching = MatchingReduction().reduce_to_exclusive(matching, sort_output=...)
ReduceToExclusive ==
    /\ last_op.name # "none"
    /\ ops < MaxOps
    /\ \E sort_output \in sort_outputs :
          /\ matching' = reduce_to_exclusive(matching, sort_output)
          /\ last_op' = [NoOp EXCEPT !.name = "reduce", !.sort_output = sort_output]
    /\ source' = matching
    /\ ops' = ops + 1
    /\ UNCHANGED <<annotation_data, detection_data, correlator, iou_floor, sort_outputs, call>>

\* matching = MatchingThreshold().apply_iou_threshold(matching, t, sort_output=...)
ApplyIouThreshold ==
    /\ last_op.name # "none"
    /\ ops < MaxOps
    /\ \E t \in IouThresholds, sort_output \in sort_outputs :
          /\ matching' = apply_iou_threshold(matching, t, sort_output)
          /\ last_op' = [NoOp EXCEPT !.name = "iou", !.threshold = t,
                                     !.sort_output = sort_output]
          /\ iou_floor' = iou_floor \cup {t}
    /\ source' = matching
    /\ ops' = ops + 1
    /\ UNCHANGED <<annotation_data, detection_data, correlator, sort_outputs, call>>

\* matching = MatchingThreshold().apply_confidence_threshold(matching, t, sort_output=...)
ApplyConfidenceThreshold ==
    /\ last_op.name # "none"
    /\ ops < MaxOps
    /\ \E t \in ConfidenceThresholds, sort_output \in sort_outputs :
          /\ matching' = apply_confidence_threshold(matching, t, sort_output)
          /\ last_op' = [NoOp EXCEPT !.name = "confidence", !.confidence = t,
                                     !.sort_output = sort_output]
    /\ source' = matching
    /\ ops' = ops + 1
    /\ UNCHANGED <<annotation_data, detection_data, correlator, iou_floor, sort_outputs, call>>

Next ==
    \/ Correlate
    \/ ReduceToExclusive
    \/ ApplyIouThreshold
    \/ ApplyConfidenceThreshold

Spec == Init /\ [][Next]_vars

\* ------------------------------------------ reduction of a table given by hand
\* reduce_to_exclusive is a public method: a caller may hand it any table with
\* the columns of a match table. The rows a caller can hand in, of the three
\* shapes, over two samples, two detections and two annotations
TableSamples == {"s1", "s2"}
TableMatchValues == {<<0, 1>>, <<1, 2>>}
TableRows ==
    {_build_matching_entry(s, a, d, "tp", "c1", v, c) :
        s \in TableSamples, a \in {"a1", "a2"}, d \in {"d1", "d2"},
        v \in TableMatchValues, c \in Confidences}
    \cup {_build_matching_entry(s, None, d, "fp", "c1", NaN, c) :
        s \in TableSamples, d \in {"d1", "d2"}, c \in Confidences}
    \cup {_build_matching_entry(s, a, None, "fn", "c1", NaN, NaNConf) :
        s \in TableSamples, a \in {"a1", "a2"}}
Tables == UNION {[1..n -> TableRows] : n \in 0..MaxRows}

InitTable ==
    /\ annotation_data = <<>>
    /\ detection_data = <<>>
    /\ correlator = NewCorrelator(<<1, 2>>, "complete", TRUE)
    /\ matching \in Tables
    /\ source = <<>>
    /\ last_op = [NoOp EXCEPT !.name = "given"]
    /\ iou_floor = {}
    /\ ops = 0
    /\ sort_outputs = BOOLEAN
    /\ call = NoCall

NextTable == ReduceToExclusive

SpecTable == InitTable /\ [][NextTable]_vars

\* ------------------------------------------- construction of the correlator
\* the arguments a caller may pass to BoxCorrelator(...)
MatchingTypeArgs == {"complete", "exclusive", "greedy", "Complete"}
ClipArgs == {NotGiven, <<Fin(0), Fin(2)>>}
Unconstructed == [raised |-> "unconstructed"]

\* the tables to correlate: one sample and class, boxes that overlap in part
\* and reach over the left edge of the frame
ConstructCenters == {<<0, 1>>, <<1, 1>>}
ConstructAnnotationTables ==
    UNION {[1..n -> {[sample_name |-> "s1", class_id |-> "c1", center |-> c, size |-> z] :
                        c \in ConstructCenters, z \in Sizes}] : n \in 0..(MaxAnn - 1)}
ConstructDetectionTables ==
    UNION {[1..n -> {[sample_name |-> "s1", class_id |-> "c1", center |-> c, size |-> z,
                      confidence |-> f] :
                        c \in ConstructCenters, z \in Sizes, f \in Confidences}] :
           n \in 0..MaxDet}

InitConstruct ==
    /\ \E a \in ConstructAnnotationTables : annotation_data = WithIndex(a, AnnotationIds)
    /\ \E d \in ConstructDetectionTables : detection_data = WithIndex(d, DetectionIds)
    /\ correlator = Unconstructed
    /\ matching = <<>>
    /\ source = <<>>
    /\ last_op = NoOp
    /\ iou_floor = {}
    /\ ops = 0
    /\ sort_outputs = {TRUE}
    /\ call = NoCall

\* box_correlator = BoxCorrelator(threshold=..., matching_type=..., ...)
Construct ==
    /\ call.fn = "none"
    /\ \E threshold \in IouThresholds, matching_type \in MatchingTypeArgs,
          clip_truncated_boxes \in BOOLEAN, clip_x \in ClipArgs, clip_y \in ClipArgs :
          /\ call' = [fn |-> "__init__",
                      args |-> [threshold |-> threshold,
                                matching_type |-> matching_type,
                                clip_truncated_boxes |-> clip_truncated_boxes,
                                clip_x |-> clip_x, clip_y |-> clip_y]]
          /\ correlator' = BoxCorrelator(threshold, matching_type, clip_truncated_boxes,
                                         clip_x, clip_y)
    /\ UNCHANGED <<annotation_data, detection_data, matching, source, last_op,
                   iou_floor, ops, sort_outputs>>

NextConstruct ==
    \/ Construct
    \/ Correlate

SpecConstruct == InitConstruct /\ [][NextConstruct]_vars

\* ------------------------------- table operations on a table given by hand
\* the three table operations are public methods: a caller may hand them any
\* table with the columns of a match table. The rows of such a table: two
\* samples that use the same indices, two classes, a match_value below and
\* one above the threshold 1/2
OpClasses == {"c1", "c2"}
OpMatchValues == {<<1, 2>>, <<1, 1>>}
OpRows ==
    {_build_matching_entry(s, a, d, "tp", k, v, c) :
        s \in TableSamples, a \in {"a1", "a2"}, d \in {"d1", "d2"}, k \in OpClasses,
        v \in OpMatchValues, c \in Confidences}
    \cup {_build_matching_entry(s, None, d, "fp", k, NaN, c) :
        s \in TableSamples, d \in {"d1", "d2"}, k \in OpClasses, c \in Confidences}
    \cup {_build_matching_entry(s, a, None, "fn", k, NaN, NaNConf) :
        s \in TableSamples, a \in {"a1", "a2"}, k \in OpClasses}
OpTables == UNION {[1..n -> OpRows] : n \in 0..MaxOpRows}

InitOps ==
    /\ annotation_data = <<>>
    /\ detection_data = <<>>
    /\ correlator = NewCorrelator(<<1, 2>>, "complete", TRUE)
    /\ matching \in OpTables
    /\ source = <<>>
    /\ last_op = [NoOp EXCEPT !.name = "given"]
    /\ iou_floor = {}
    /\ ops = 0
    /\ sort_outputs = {TRUE}
    /\ call = NoCall

NextOps ==
    \/ ReduceToExclusive
    \/ ApplyIouThreshold
    \/ ApplyConfidenceThreshold

SpecOps == InitOps /\ [][NextOps]_vars

\* ------------------------------------ a correlator with a confidence_col
\* the column names a caller may pass as confidence_col
ConfidenceCols == {"confidence", "score"}

\* BoxCorrelator(threshold=..., matching_type=..., confidence_col=...): the
\* attributes of NewCorrelator and self._confidence_col
BoxCorrelatorWithConfidenceCol(threshold, matching_type, confidence_col) ==
    [_confidence_col |-> confidence_col] @@ NewCorrelator(threshold, matching_type, TRUE)

\* prediction tables with the columns "confidence" and "score"
ScoredDetectionTables ==
    UNION {[1..n -> {[sample_name |-> "s1", class_id |-> "c1", center |-> c, size |-> z,
                      confidence |-> f, score |-> g] :
                        c \in ConstructCenters, z \in Sizes,
                        f \in Confidences, g \in Confidences}] :
           n \in 0..MaxDet}

InitConfidenceCol ==
    /\ \E a \in ConstructAnnotationTables : annotation_data = WithIndex(a, AnnotationIds)
    /\ \E d \in ScoredDetectionTables : detection_data = WithIndex(d, DetectionIds)
    /\ correlator = Unconstructed
    /\ matching = <<>>
    /\ source = <<>>
    /\ last_op = NoOp
    /\ iou_floor = {}
    /\ ops = 0
    /\ sort_outputs = {TRUE}
    /\ call = NoCall

\* box_correlator = BoxCorrelator(threshold=..., matching_type=..., confidence_col=...)
ConstructWithConfidenceCol ==
    /\ call.fn = "none"
    /\ \E threshold \in IouThresholds, matching_type \in MatchingTypes,
          confidence_col \in ConfidenceCols :
          /\ call' = [fn |-> "__init__",
                      args |-> [threshold |-> threshold, matching_type |-> matching_type,
                                confidence_col |-> confidence_col]]
          /\ correlator' = BoxCorrelatorWithConfidenceCol(threshold, matching_type,
                                                          confidence_col)
    /\ UNCHANGED <<annotation_data, detection_data, matching, source, last_op,
                   iou_floor, ops, sort_outputs>>

\* Correlate is __call__: it calls match() without confidence_col, so match()
\* reads the column of its default, "confidence"
NextConfidenceCol ==
    \/ ConstructWithConfidenceCol
    \/ Correlate

SpecConfidenceCol == InitConfidenceCol /\ [][NextConfidenceCol]_vars

\* --------------------------------------------------- calls of the geometry
\* boxes left of, across and right of the small window, one of width zero
GeometryCenters == {<<0, 1>>, <<1, 1>>, <<3, 1>>}
GeometrySizes == {<<0, 2>>, <<2, 2>>, <<2, 4>>}
GeometryBoxes == {_convert_coords(c, z) : c \in GeometryCenters, z \in GeometrySizes}

\* clip windows: the _compute_iou default, a window of one pixel, the frame
\* of the correlator's default, and a window with min > max
GeometryClipX == {<<NegInf, PosInf>>, <<Fin(0), Fin(2)>>, <<Fin(0), Fin(2 * 1920)>>,
                  <<Fin(2), Fin(0)>>}
GeometryClipY == {<<NegInf, PosInf>>, <<Fin(0), Fin(2)>>}

InitGeometry ==
    /\ annotation_data = <<>>
    /\ detection_data = <<>>
    /\ correlator = Unconstructed
    /\ matching = <<>>
    /\ source = <<>>
    /\ last_op = NoOp
    /\ iou_floor = {}
    /\ ops = 0
    /\ sort_outputs = {TRUE}
    /\ call = NoCall

\* BoxCorrelator._compute_iou(center1, size1, center2, size2, clip_x=, clip_y=)
ComputeIou ==
    /\ \E center1 \in GeometryCenters, size1 \in GeometrySizes,
          center2 \in GeometryCenters, size2 \in GeometrySizes,
          clip_x \in GeometryClipX, clip_y \in GeometryClipY :
          call' = [fn |-> "_compute_iou",
                   args |-> [center1 |-> center1, size1 |-> size1,
                             center2 |-> center2, size2 |-> size2,
                             clip_x |-> clip_x, clip_y |-> clip_y],
                   result |-> _compute_iou(center1, size1, center2, size2, clip_x, clip_y)]
    /\ UNCHANGED <<annotation_data, detection_data, correlator, matching, source,
                   last_op, iou_floor, ops, sort_outputs>>

\* BoxCorrelator._clip_coords(x_min, y_min, x_max, y_max, clip_x_min, ...)
ClipCoords ==
    /\ \E b \in GeometryBoxes, clip_x \in GeometryClipX, clip_y \in GeometryClipY :
          call' = [fn |-> "_clip_coords",
                   args |-> [b |-> b, clip_x |-> clip_x, clip_y |-> clip_y],
                   result |-> _clip_coords(b, clip_x, clip_y)]
    /\ UNCHANGED <<annotation_data, detection_data, correlator, matching, source,
                   last_op, iou_floor, ops, sort_outputs>>

NextGeometry ==
    \/ ComputeIou
    \/ ClipCoords

SpecGeometry == InitGeometry /\ [][NextGeometry]_vars


Correlated == last_op.name = "correlate"

SamePartition(d, a) == d.sample_name = a.sample_name /\ d.class_id = a.class_id

\* the IoU the correlator computes for a prediction row and an annotation row
Iou(d, a) == Criterion(d, a, correlator.clip_x, correlator.clip_y)

\* position of a row in its input table
AnnPos(a) == CHOOSE i \in 1..Len(annotation_data) : annotation_data[i] = a
DetPos(d) == CHOOSE i \in 1..Len(detection_data) : detection_data[i] = d

\* numbers of rows of a table, by kind and index
TpRows(df, d, a) ==
    Cardinality({i \in DOMAIN df : df[i].confusion = "tp" /\ df[i].detection_index = d
                                   /\ df[i].annotation_index = a})
TpRowsOfDet(df, d) ==
    Cardinality({i \in DOMAIN df : df[i].confusion = "tp" /\ df[i].detection_index = d})
TpRowsOfAnn(df, a) ==
    Cardinality({i \in DOMAIN df : df[i].confusion = "tp" /\ df[i].annotation_index = a})
FpRowsOfDet(df, d) ==
    Cardinality({i \in DOMAIN df : df[i].confusion = "fp" /\ df[i].detection_index = d})
FnRowsOfAnn(df, a) ==
    Cardinality({i \in DOMAIN df : df[i].confusion = "fn" /\ df[i].annotation_index = a})

\* C1: under the complete policy correlate emits a tp row for a (detection,
\* annotation) pair exactly when both rows are in the same (sample_name,
\* class_id) partition and their IoU is >= threshold (equality included); the
\* row carries the pair's IoU and the detection's confidence, and nothing
\* limits how many tp rows one detection or one annotation takes part in.
C1_CompleteTpIffIouAtLeastThreshold ==
    (Correlated /\ correlator.matching_type = "complete") =>
        /\ \A d \in Range(detection_data), a \in Range(annotation_data) :
              TpRows(matching, d.index, a.index) =
                  IF SamePartition(d, a) /\ IouGeq(Iou(d, a), correlator.threshold)
                  THEN 1 ELSE 0
        /\ \A r \in Range(matching) :
              r.confusion = "tp" =>
                \E d \in Range(detection_data), a \in Range(annotation_data) :
                    /\ r.detection_index = d.index /\ r.annotation_index = a.index
                    /\ r.sample_name = a.sample_name /\ r.class_id = a.class_id
                    /\ r.match_value = Iou(d, a) /\ r.confidence = d.confidence

\* C1 witness: a complete-policy table in which one detection has two tp rows
\* while a pair of the same partition stays below the threshold
C1_Witness ==
    /\ Correlated /\ correlator.matching_type = "complete"
    /\ \E d \in Range(detection_data) : TpRowsOfDet(matching, d.index) >= 2
    /\ \E d \in Range(detection_data), a \in Range(annotation_data) :
          /\ SamePartition(d, a) /\ ~IouGeq(Iou(d, a), correlator.threshold)
          /\ TpRows(matching, d.index, a.index) = 0

\* the annotations of a prediction's partition, and among them the one with
\* the largest IoU, the first in table order among equals
Slice(d) == {a \in Range(annotation_data) : SamePartition(d, a)}
IsBestAnn(d, a) ==
    /\ a \in Slice(d)
    /\ \A b \in Slice(d) :
          /\ ~IouLess(Iou(d, a), Iou(d, b))
          /\ AnnPos(b) < AnnPos(a) => IouLess(Iou(d, b), Iou(d, a))

\* the detections whose best annotation is a, with an IoU >= threshold
Claimants(a) ==
    {d \in Range(detection_data) :
        IsBestAnn(d, a) /\ IouGeq(Iou(d, a), correlator.threshold)}

\* C2: under the exclusive policy a detection's only possible tp partner is the
\* annotation with its maximum IoU, and only with IoU >= threshold; a claimed
\* annotation has exactly one tp row, held by a claimant of the highest
\* confidence (the first processed); every other claimant has no tp row at
\* all, whatever its IoU with the other annotations.
C2_ExclusiveGreedyByConfidence ==
    (Correlated /\ correlator.matching_type = "exclusive") =>
        /\ \A r \in Range(matching) :
              r.confusion = "tp" =>
                \E a \in Range(annotation_data) : \E d \in Claimants(a) :
                    /\ r.detection_index = d.index /\ r.annotation_index = a.index
                    /\ r.match_value = Iou(d, a) /\ r.confidence = d.confidence
                    /\ \A e \in Claimants(a) : e.confidence <= d.confidence
        /\ \A a \in Range(annotation_data) :
              TpRowsOfAnn(matching, a.index) = IF Claimants(a) = {} THEN 0 ELSE 1
        /\ \A d \in Range(detection_data) : TpRowsOfDet(matching, d.index) <= 1

\* C2 witness: a detection whose best annotation was claimed by a detection of
\* higher confidence is left without tp row although its IoU with another,
\* unclaimed annotation of the partition reaches the threshold
C2_Witness ==
    /\ Correlated /\ correlator.matching_type = "exclusive"
    /\ \E d \in Range(detection_data), a, b \in Range(annotation_data) :
          /\ d \in Claimants(a)
          /\ TpRowsOfDet(matching, d.index) = 0
          /\ \E r \in Range(matching) :
                /\ r.confusion = "tp" /\ r.annotation_index = a.index
                /\ r.confidence > d.confidence
          /\ b # a /\ SamePartition(d, b)
          /\ IouGeq(Iou(d, b), correlator.threshold)
          /\ FnRowsOfAnn(matching, b.index) = 1
          /\ FpRowsOfDet(matching, d.index) = 1

\* the samples match() iterates over: those of the annotation table
ProcessedSample(sample_name) ==
    \E a \in Range(annotation_data) : a.sample_name = sample_name

\* C9: in the output of correlate (either policy) an annotation without tp row
\* has exactly one fn row and a prediction of a processed sample without tp
\* row has exactly one fp row, each carrying the row's own sample_name and
\* class_id; an annotation or prediction with a tp row has no fn / fp row.
C9_UnmatchedBecomeFpFn ==
    Correlated =>
        /\ \A a \in Range(annotation_data) :
              /\ FnRowsOfAnn(matching, a.index) =
                    IF TpRowsOfAnn(matching, a.index) = 0 THEN 1 ELSE 0
              /\ \A r \in Range(matching) :
                    (r.confusion = "fn" /\ r.annotation_index = a.index) =>
                        r.sample_name = a.sample_name /\ r.class_id = a.class_id
        /\ \A d \in Range(detection_data) :
              ProcessedSample(d.sample_name) =>
                /\ FpRowsOfDet(matching, d.index) =
                      IF TpRowsOfDet(matching, d.index) = 0 THEN 1 ELSE 0
                /\ \A r \in Range(matching) :
                      (r.confusion = "fp" /\ r.detection_index = d.index) =>
                          /\ r.sample_name = d.sample_name /\ r.class_id = d.class_id
                          /\ r.confidence = d.confidence

\* C9 witness: one partition holding a matched pair, an unmatched prediction
\* (one fp row) and an unmatched annotation (one fn row)
C9_Witness ==
    /\ Correlated
    /\ \E d, e \in Range(detection_data), a, b \in Range(annotation_data) :
          /\ SamePartition(d, a) /\ SamePartition(e, a) /\ SamePartition(d, b)
          /\ TpRows(matching, d.index, a.index) = 1
          /\ TpRowsOfDet(matching, e.index) = 0 /\ FpRowsOfDet(matching, e.index) = 1
          /\ TpRowsOfAnn(matching, b.index) = 0 /\ FnRowsOfAnn(matching, b.index) = 1

\* ------------------------------------------------- table operations: helpers
Reduced == last_op.name = "reduce"
IouApplied == last_op.name = "iou"
ConfidenceApplied == last_op.name = "confidence"

\* positions of the rows of a sample in a table, all and by confusion
RowsOfSample(df, s) == {i \in DOMAIN df : df[i].sample_name = s}
KindOfSample(df, s, c) == {i \in RowsOfSample(df, s) : df[i].confusion = c}

SamplesOf(df) == {r.sample_name : r \in Range(df)}
AnnotationIdsOf(df, s) == {df[i].annotation_index : i \in RowsOfSample(df, s)} \ {None}
DetectionIdsOf(df, s) == {df[i].detection_index : i \in RowsOfSample(df, s)} \ {None}

\* numbers of rows of a sample that carry an index, all and by confusion
RowsWithAnn(df, s, a) ==
    Cardinality({i \in RowsOfSample(df, s) : df[i].annotation_index = a})
RowsWithDet(df, s, d) ==
    Cardinality({i \in RowsOfSample(df, s) : df[i].detection_index = d})
KindWithAnn(df, s, c, a) ==
    Cardinality({i \in KindOfSample(df, s, c) : df[i].annotation_index = a})
KindWithDet(df, s, c, d) ==
    Cardinality({i \in KindOfSample(df, s, c) : df[i].detection_index = d})

\* how often a row occurs in a table
Occurrences(df, r) == Cardinality({i \in DOMAIN df : df[i] = r})

\* ---- C3
\* the row-shape rules: tp rows carry both indices, fp rows only a
\* detection_index, fn rows only an annotation_index
RowShaped(df) ==
    \A r \in Range(df) :
        /\ r.confusion \in {"tp", "fp", "fn"}
        /\ r.confusion = "tp" => r.annotation_index # None /\ r.detection_index # None
        /\ r.confusion = "fp" => r.annotation_index = None /\ r.detection_index # None
        /\ r.confusion = "fn" => r.annotation_index # None /\ r.detection_index = None

\* no index is in more than one row of the same sample
ExclusivePerSample(df) ==
    \A s \in SamplesOf(df) :
        /\ \A a \in AnnotationIdsOf(df, s) : RowsWithAnn(df, s, a) = 1
        /\ \A d \in DetectionIdsOf(df, s) : RowsWithDet(df, s, d) = 1

\* the detection of an fp row and the annotation of an fn row are in no other
\* row of the sample (as in every table correlate returns)
SubjectsOccurOnce(df) ==
    \A s \in SamplesOf(df) :
        /\ \A i \in KindOfSample(df, s, "fp") : RowsWithDet(df, s, df[i].detection_index) = 1
        /\ \A i \in KindOfSample(df, s, "fn") : RowsWithAnn(df, s, df[i].annotation_index) = 1

\* C3 as stated: for every input table whose rows satisfy the row-shape rules,
\* the output of reduce_to_exclusive has no annotation_index and no
\* detection_index in more than one row of the same sample.
C3_ExclusiveForEveryRowShapedInput ==
    (Reduced /\ RowShaped(source)) => ExclusivePerSample(matching)

\* C3 amended: for every input table whose rows satisfy the row-shape rules and
\* in which the detection of an fp row and the annotation of an fn row occur
\* in no other row of the sample, the output of reduce_to_exclusive has no
\* annotation_index and no detection_index in more than one row of the same
\* sample.
C3_ExclusiveForConsistentInput ==
    (Reduced /\ RowShaped(source) /\ SubjectsOccurOnce(source))
        => ExclusivePerSample(matching)

\* C3 witness: the reduction of a consistent table in which one sample had two
\* tp rows on the same annotation beside an fn row, and so was not exclusive
C3_Witness ==
    /\ Reduced /\ RowShaped(source) /\ SubjectsOccurOnce(source)
    /\ \E s \in SamplesOf(source) :
          /\ \E a \in AnnotationIdsOf(source, s) : KindWithAnn(source, s, "tp", a) = 2
          /\ KindOfSample(source, s, "fn") # {}
          /\ KindOfSample(matching, s, "fp") # {}

\* C4: reduce_to_exclusive applied to a table produced by correlate: every
\* annotation index and every detection index of the input rows of a sample
\* occurs in exactly one output row of that sample, and no other index occurs.
C4_ReductionKeepsEveryIndexOnce ==
    (Reduced /\ ops = 1) =>
        \A s \in SamplesOf(source) \cup SamplesOf(matching) :
            /\ AnnotationIdsOf(matching, s) = AnnotationIdsOf(source, s)
            /\ DetectionIdsOf(matching, s) = DetectionIdsOf(source, s)
            /\ \A a \in AnnotationIdsOf(source, s) : RowsWithAnn(matching, s, a) = 1
            /\ \A d \in DetectionIdsOf(source, s) : RowsWithDet(matching, s, d) = 1

\* C4 witness: the reduction of a correlate output in which a detection had
\* two tp rows and an annotation had two tp rows, so that indices were demoted
C4_Witness ==
    /\ Reduced /\ ops = 1
    /\ \E s \in SamplesOf(source) :
          /\ \E d \in DetectionIdsOf(source, s) : KindWithDet(source, s, "tp", d) >= 2
          /\ \E a \in AnnotationIdsOf(source, s) : KindWithAnn(source, s, "tp", a) >= 2
          /\ \E d \in DetectionIdsOf(source, s) :
                KindWithDet(source, s, "fp", d) = 0 /\ KindWithDet(matching, s, "fp", d) = 1
          /\ \E a \in AnnotationIdsOf(source, s) :
                KindWithAnn(source, s, "fn", a) = 0 /\ KindWithAnn(matching, s, "fn", a) = 1
\* ---- C5
\* row r1 is better than row r2: higher confidence, then higher match_value
RowBetter(r1, r2) ==
    \/ r1.confidence > r2.confidence
    \/ r1.confidence = r2.confidence /\ IouLess(r2.match_value, r1.match_value)

\* among the rows of the source table, row i is preferred to row j: the better
\* row, and of two equally good rows the one that comes first
Preferred(i, j) ==
    \/ RowBetter(source[i], source[j])
    \/ ~RowBetter(source[j], source[i]) /\ i < j

\* the best tp row of every detection of sample s in the source table
BestOfDetection(s) ==
    {i \in KindOfSample(source, s, "tp") :
        \A j \in KindOfSample(source, s, "tp") \ {i} :
            source[j].detection_index = source[i].detection_index => Preferred(i, j)}

\* of those, the best row of every annotation
Survivors(s) ==
    {i \in BestOfDetection(s) :
        \A j \in BestOfDetection(s) \ {i} :
            source[j].annotation_index = source[i].annotation_index => Preferred(i, j)}

IouBelow(s, t) ==
    {i \in KindOfSample(source, s, "tp") :
        ~IsNaN(source[i].match_value) /\ ~IouGeq(source[i].match_value, t)}
IouKept(s, t) ==
    {i \in KindOfSample(source, s, "tp") : IouGeq(source[i].match_value, t)}

\* C6: apply_iou_threshold keeps exactly the tp rows with match_value >= the
\* threshold; an annotation of a tp row below it gets one new fn row iff no
\* kept tp row of the sample carries it, a detection of a tp row below it gets
\* one new fp row iff no kept tp row of the sample carries it.
C6_IouThresholdDemotion ==
    IouApplied =>
        LET t == last_op.threshold
        IN  \A s \in SamplesOf(source) :
              /\ \A r \in Range(source) \cup Range(matching) :
                    (r.sample_name = s /\ r.confusion = "tp") =>
                        Occurrences(matching, r)
                          = IF IouGeq(r.match_value, t) THEN Occurrences(source, r) ELSE 0
              /\ \A i \in IouBelow(s, t) :
                    LET a == source[i].annotation_index
                        d == source[i].detection_index
                        a_kept == \E j \in IouKept(s, t) : source[j].annotation_index = a
                        d_kept == \E j \in IouKept(s, t) : source[j].detection_index = d
                    IN  /\ KindWithAnn(matching, s, "fn", a)
                              = KindWithAnn(source, s, "fn", a) + (IF a_kept THEN 0 ELSE 1)
                        /\ KindWithDet(matching, s, "fp", d)
                              = KindWithDet(source, s, "fp", d) + (IF d_kept THEN 0 ELSE 1)
                        /\ (RowsWithAnn(source, s, a) = 1 /\ RowsWithDet(source, s, d) = 1)
                              => /\ RowsWithAnn(matching, s, a) = 1
                                 /\ RowsWithDet(matching, s, d) = 1
                                 /\ KindWithAnn(matching, s, "fn", a) = 1
                                 /\ KindWithDet(matching, s, "fp", d) = 1

\* C6 witness: a threshold was applied under which a tp row whose indices occur
\* in no other row fell and became one fp row plus one fn row
C6_Witness ==
    /\ IouApplied
    /\ \E s \in SamplesOf(source) : \E i \in IouBelow(s, last_op.threshold) :
          /\ RowsWithAnn(source, s, source[i].annotation_index) = 1
          /\ RowsWithDet(source, s, source[i].detection_index) = 1
          /\ KindWithAnn(matching, s, "fn", source[i].annotation_index) = 1
          /\ KindWithDet(matching, s, "fp", source[i].detection_index) = 1

\* ---- C7
\* C7: apply_confidence_threshold keeps exactly the tp and fp rows with
\* confidence >= the threshold; an annotation of a tp row below it gets one
\* new fn row iff no kept tp row of the sample carries it; a detection all of
\* whose rows are below the threshold is in no output row, and no output row
\* carries a detection with a confidence below the threshold.
C7_ConfidenceThresholdDemotion ==
    ConfidenceApplied =>
        LET t == last_op.confidence
        IN  /\ \A r \in Range(source) \cup Range(matching) :
                  r.confusion \in {"tp", "fp"} =>
                      Occurrences(matching, r)
                        = IF r.confidence >= t THEN Occurrences(source, r) ELSE 0
            /\ \A r \in Range(matching) : r.detection_index # None => r.confidence >= t
            /\ \A s \in SamplesOf(source) :
                  /\ \A i \in KindOfSample(source, s, "tp") :
                        LET a == source[i].annotation_index
                            a_kept == \E j \in KindOfSample(source, s, "tp") :
                                         /\ source[j].annotation_index = a
                                         /\ source[j].confidence >= t
                        IN  source[i].confidence < t =>
                              KindWithAnn(matching, s, "fn", a)
                                = KindWithAnn(source, s, "fn", a) + (IF a_kept THEN 0 ELSE 1)
                  /\ \A d \in DetectionIdsOf(source, s) :
                        (\A i \in RowsOfSample(source, s) :
                            source[i].detection_index = d => source[i].confidence < t)
                        => RowsWithDet(matching, s, d) = 0

\* C7 witness: a confidence threshold was applied under which a tp row fell,
\* its annotation became fn and its detection disappeared, and under which an
\* fp row fell and disappeared
C7_Witness ==
    /\ ConfidenceApplied
    /\ \E s \in SamplesOf(source) : \E i \in KindOfSample(source, s, "tp") :
          /\ source[i].confidence < last_op.confidence
          /\ KindWithAnn(matching, s, "fn", source[i].annotation_index) = 1
          /\ RowsWithDet(matching, s, source[i].detection_index) = 0
    /\ \E s \in SamplesOf(source) : \E i \in KindOfSample(source, s, "fp") :
          /\ source[i].confidence < last_op.confidence
          /\ RowsWithDet(matching, s, source[i].detection_index) = 0

\* ---- C8
\* C8: in the table of an exclusive correlator, after correlate and after
\* every later table operation, each annotation_index and each detection_index
\* is in at most one row of the whole table.
C8_ExclusiveOneToOne ==
    (correlator.matching_type = "exclusive" /\ last_op.name # "none") =>
        \A i, j \in DOMAIN matching :
            i # j =>
              /\ matching[i].annotation_index # None
                    => matching[i].annotation_index # matching[j].annotation_index
              /\ matching[i].detection_index # None
                    => matching[i].detection_index # matching[j].detection_index

\* C8 witness: an exclusive table after two table operations that still holds
\* a tp row, an fp row and an fn row, from a slice in which two detections
\* met the threshold with the same annotation
C8_Witness ==
    /\ correlator.matching_type = "exclusive"
    /\ ops = 2
    /\ \A c \in {"tp", "fp", "fn"} : \E r \in Range(matching) : r.confusion = c
    /\ \E a \in Range(annotation_data) :
          Cardinality({d \in Range(detection_data) :
                          SamePartition(d, a) /\ IouGeq(Iou(d, a), correlator.threshold)}) >= 2

\* ---- C10
\* C10: in the output of correlate and of every later table operation, a tp
\* row has both indices and a numeric match_value >= the correlator threshold
\* and >= every IoU threshold applied since; an fp row has no annotation_index,
\* a detection_index and a NaN match_value; an fn row has no detection_index,
\* an annotation_index and NaN match_value and confidence.
C10_RowShape ==
    \A r \in Range(matching) :
        /\ r.confusion \in {"tp", "fp", "fn"}
        /\ r.confusion = "tp" =>
              /\ r.annotation_index # None /\ r.detection_index # None
              /\ ~IsNaN(r.match_value)
              /\ \A t \in iou_floor : IouGeq(r.match_value, t)
        /\ r.confusion = "fp" =>
              /\ r.annotation_index = None /\ r.detection_index # None
              /\ IsNaN(r.match_value)
        /\ r.confusion = "fn" =>
              /\ r.detection_index = None /\ r.annotation_index # None
              /\ IsNaN(r.match_value) /\ r.confidence = NaNConf

\* C10 witness: a table after two table operations, one of them an IoU
\* threshold above the correlator's, with rows of all three kinds, among them
\* an fp row and an fn row that were tp rows of the correlate output
C10_Witness ==
    /\ ops = 2
    /\ \E t \in iou_floor : IouLess(correlator.threshold, t)
    /\ \A c \in {"tp", "fp", "fn"} : \E r \in Range(matching) : r.confusion = c
    /\ \E d \in Range(detection_data), a \in Range(annotation_data) :
          /\ SamePartition(d, a) /\ IouGeq(Iou(d, a), correlator.threshold)
          /\ \E r \in Range(matching) : r.confusion = "fp" /\ r.detection_index = d.index
          /\ \E r \in Range(matching) : r.confusion = "fn" /\ r.annotation_index = a.index

\* ---- C11
\* no annotation_index and no detection_index is repeated among the rows
OneToOne(df) ==
    \A i, j \in DOMAIN df :
        i # j =>
          /\ df[i].annotation_index # None => df[i].annotation_index # df[j].annotation_index
          /\ df[i].detection_index # None => df[i].detection_index # df[j].detection_index

\* two tables have the same rows, each as often in the one as in the other
SameRows(df1, df2) ==
    \A r \in Range(df1) \cup Range(df2) : Occurrences(df1, r) = Occurrences(df2, r)

\* C11: reduce_to_exclusive returns a table that is already one-to-one with
\* the same rows, and reduce_to_exclusive applied to an output of
\* reduce_to_exclusive returns the same rows again, for every input table.
C11_ReductionIdempotent ==
    /\ (Reduced /\ OneToOne(source)) => SameRows(matching, source)
    /\ (Reduced /\ ops = 2) => SameRows(matching, source)

\* C11 witness: the second of two reductions, on a one-to-one table that holds
\* a tp row, an fp row and an fn row
C11_Witness ==
    /\ Reduced /\ ops = 2 /\ OneToOne(source)
    /\ \A c \in {"tp", "fp", "fn"} : \E r \in Range(source) : r.confusion = c
    /\ SameRows(matching, source)

\* ---- C12
\* C12: apply_iou_threshold with a threshold that every tp row's match_value
\* meets returns the rows of its input, and apply_confidence_threshold with a
\* threshold that the confidence of every tp row and fp row meets returns the
\* rows of its input, fp and fn rows included.
C12_ThresholdThatDemotesNothing ==
    /\ (IouApplied
          /\ \A r \in Range(source) :
                r.confusion = "tp" => IouGeq(r.match_value, last_op.threshold))
        => SameRows(matching, source)
    /\ (ConfidenceApplied
          /\ \A r \in Range(source) :
                r.confusion \in {"tp", "fp"} => r.confidence >= last_op.confidence)
        => SameRows(matching, source)

\* C12 witness: an IoU threshold above the correlator's was applied to a table
\* with tp, fp and fn rows whose tp rows all meet it, and nothing changed
C12_Witness ==
    /\ IouApplied
    /\ IouLess(correlator.threshold, last_op.threshold)
    /\ \A c \in {"tp", "fp", "fn"} : \E r \in Range(source) : r.confusion = c
    /\ \A r \in Range(source) :
          r.confusion = "tp" => IouGeq(r.match_value, last_op.threshold)
    /\ SameRows(matching, source)

\* ---- C13
Constructed == call.fn = "__init__"

\* C13: constructing a BoxCorrelator with a matching_type other than
\* "complete" or "exclusive" raises an error; there is no correlator, no
\* policy was chosen and nothing can be correlated.
C13_UnknownMatchingTypeRaises ==
    (Constructed /\ call.args.matching_type \notin {"complete", "exclusive"}) =>
        /\ correlator = [raised |-> "RuntimeError"]
        /\ last_op.name = "none"
        /\ matching = <<>>
        /\ ~ENABLED Correlate

\* C13 witness: a construction with the matching_type "greedy" that raised,
\* with a non-empty annotation table waiting to be correlated
C13_Witness ==
    /\ Constructed
    /\ call.args.matching_type = "greedy"
    /\ correlator.raised = "RuntimeError"
    /\ annotation_data # <<>>

\* ---- C15
\* C15: the clip window of a constructed correlator: with clip_truncated_boxes
\* true it is (0, 1920) by (0, 1280) on the axes without an explicit clip_x /
\* clip_y and the explicit value on the others; with clip_truncated_boxes
\* false it is (-inf, +inf) on both axes, explicit values or not.
C15_ClipWindowResolution ==
    (Constructed /\ correlator.raised = None) =>
        LET a == call.args
        IN  IF a.clip_truncated_boxes
            THEN /\ a.clip_x = NotGiven => correlator.clip_x = <<Fin(0), Fin(2 * 1920)>>
                 /\ a.clip_x # NotGiven => correlator.clip_x = a.clip_x
                 /\ a.clip_y = NotGiven => correlator.clip_y = <<Fin(0), Fin(2 * 1280)>>
                 /\ a.clip_y # NotGiven => correlator.clip_y = a.clip_y
            ELSE /\ correlator.clip_x = <<NegInf, PosInf>>
                 /\ correlator.clip_y = <<NegInf, PosInf>>

\* C15 witness: a correlator constructed with clip_truncated_boxes false and
\* explicit clip_x and clip_y, whose window is unbounded, and which has
\* correlated with that window
C15_Witness ==
    /\ Constructed /\ correlator.raised = None
    /\ ~call.args.clip_truncated_boxes
    /\ call.args.clip_x # NotGiven /\ call.args.clip_y # NotGiven
    /\ correlator.clip_x = <<NegInf, PosInf>>
    /\ last_op.name = "correlate" /\ matching # <<>>

\* ---- C14
\* C14: correlate on an empty annotation table and an empty prediction table
\* returns an empty match table, under both policies, and
\* reduce_to_exclusive, apply_iou_threshold and apply_confidence_threshold
\* return an empty table for an empty match table.
C14_EmptyInEmptyOut ==
    /\ (last_op.name = "correlate" /\ annotation_data = <<>> /\ detection_data = <<>>)
          => matching = <<>>
    /\ (last_op.name \in {"reduce", "iou", "confidence"} /\ source = <<>>)
          => matching = <<>>

\* C14 witness: empty input tables were correlated and two table operations,
\* the last of them reduce_to_exclusive, were applied to the empty result
C14_Witness ==
    /\ annotation_data = <<>> /\ detection_data = <<>>
    /\ Reduced /\ ops = 2
    /\ source = <<>> /\ matching = <<>>

\* ---- C18
\* the corner form of a box of an input table after clipping with the
\* correlator's window
ClippedBox(r) ==
    _clip_coords(_convert_coords(r.center, r.size), correlator.clip_x, correlator.clip_y)
ClippedArea(r) ==
    (ClippedBox(r).x_max - ClippedBox(r).x_min) * (ClippedBox(r).y_max - ClippedBox(r).y_min)

\* a detection and an annotation of one partition whose clipped boxes coincide
\* and have a positive area
CoincideClipped(d, a) ==
    /\ SamePartition(d, a)
    /\ ClippedBox(d) = ClippedBox(a)
    /\ ClippedArea(a) > 0

IouCalled == call.fn = "_compute_iou"
ClipCalled == call.fn = "_clip_coords"

\* the clipped corner forms of the two boxes of a _compute_iou call
CallBox1 ==
    _clip_coords(_convert_coords(call.args.center1, call.args.size1),
                 call.args.clip_x, call.args.clip_y)
CallBox2 ==
    _clip_coords(_convert_coords(call.args.center2, call.args.size2),
                 call.args.clip_x, call.args.clip_y)
BoxArea(b) == (b.x_max - b.x_min) * (b.y_max - b.y_min)

\* C16: for all pairs of boxes and any one clip window, the IoU of the first
\* box with the second equals the IoU of the second box with the first.
C16_IouSymmetric ==
    IouCalled =>
        call.result = _compute_iou(call.args.center2, call.args.size2,
                                   call.args.center1, call.args.size1,
                                   call.args.clip_x, call.args.clip_y)

\* C16 witness: a call with two different boxes that overlap, one of which the
\* window cuts and the other not
C16_Witness ==
    /\ IouCalled
    /\ call.result[1] > 0
    /\ call.result[1] < call.result[2]
    /\ call.args.clip_x = <<Fin(0), Fin(2 * 1920)>>
    /\ CallBox1 # _convert_coords(call.args.center1, call.args.size1)
    /\ CallBox2 = _convert_coords(call.args.center2, call.args.size2)

\* ---- C17
WindowOrdered(clip_x, clip_y) ==
    /\ (clip_x[1].kind = "fin" /\ clip_x[2].kind = "fin") => clip_x[1].v <= clip_x[2].v
    /\ (clip_y[1].kind = "fin" /\ clip_y[2].kind = "fin") => clip_y[1].v <= clip_y[2].v

\* C17: for boxes of non-negative width and height and a window with
\* min <= max, the intersection area is at least 0 and at most the clipped
\* area of either box, so the IoU inter / (union + eps) lies between 0 and 1;
\* when a clipped box has area zero the IoU is 0, and the divisor union + eps
\* is positive.
C17_IouBounds ==
    (IouCalled /\ WindowOrdered(call.args.clip_x, call.args.clip_y)) =>
        /\ call.result[1] >= 0
        /\ call.result[1] <= BoxArea(CallBox1)
        /\ call.result[1] <= BoxArea(CallBox2)
        /\ call.result[1] <= call.result[2]
        /\ call.result[2] >= 0
        /\ (BoxArea(CallBox1) = 0 \/ BoxArea(CallBox2) = 0) => call.result[1] = 0

\* C17 witness: a call whose first box lies right of the window and is
\* clipped to area zero, while the second keeps a positive area: the IoU is 0
C17_Witness ==
    /\ IouCalled
    /\ call.args.clip_x = <<Fin(0), Fin(2)>>
    /\ call.args.size1[1] > 0
    /\ BoxArea(CallBox1) = 0
    /\ BoxArea(CallBox2) > 0
    /\ call.result = <<0, BoxArea(CallBox2)>>

\* ---- C19
\* the box lies inside the window
InsideWindow(b, clip_x, clip_y) ==
    /\ ClipBelow(b.x_min, clip_x[1]) = b.x_min /\ ClipAbove(b.x_max, clip_x[2]) = b.x_max
    /\ ClipBelow(b.y_min, clip_y[1]) = b.y_min /\ ClipAbove(b.y_max, clip_y[2]) = b.y_max
    /\ b.x_min <= b.x_max /\ b.y_min <= b.y_max

\* C19: for a window with min <= max, clipping a box that lies inside the
\* window returns it unchanged, and clipping the clipped box again with the
\* same window returns the clipped box.
C19_ClipIdempotent ==
    (ClipCalled /\ WindowOrdered(call.args.clip_x, call.args.clip_y)) =>
        /\ InsideWindow(call.args.b, call.args.clip_x, call.args.clip_y)
              => call.result = call.args.b
        /\ _clip_coords(call.result, call.args.clip_x, call.args.clip_y) = call.result

\* C19 witness: a box that reaches over the left and the lower edge of a
\* finite window is cut to a box of positive area inside the window
C19_Witness ==
    /\ ClipCalled
    /\ call.args.clip_x = <<Fin(0), Fin(2)>>
    /\ call.args.clip_y = <<Fin(0), Fin(2)>>
    /\ call.args.b.x_min < 0
    /\ call.args.b.y_max > 2
    /\ call.result # call.args.b
    /\ BoxArea(call.result) > 0
    /\ InsideWindow(call.result, call.args.clip_x, call.args.clip_y)

\* ---- C20
AnnotatedSamples == {a.sample_name : a \in Range(annotation_data)}

\* C20: correlate emits rows only for sample names of the annotation table;
\* a prediction whose sample_name has no annotation row is in no output row,
\* under either matching policy.
C20_OnlyAnnotatedSamples ==
    Correlated =>
        /\ \A i \in DOMAIN matching : matching[i].sample_name \in AnnotatedSamples
        /\ \A d \in Range(detection_data) :
              d.sample_name \notin AnnotatedSamples
                  => \A i \in DOMAIN matching : matching[i].detection_index # d.index

\* C20 witness: a correlation of a prediction table with one prediction in an
\* annotated sample, reported as fp, and one in a sample without annotations
C20_Witness ==
    /\ Correlated
    /\ \E d \in Range(detection_data) : d.sample_name \notin AnnotatedSamples
    /\ \E d \in Range(detection_data) :
          /\ d.sample_name \in AnnotatedSamples
          /\ \E i \in DOMAIN matching :
                matching[i].detection_index = d.index /\ matching[i].confusion = "fp"

\* ---- C21
\* C21: every tp row emitted by correlate (either policy) pairs an annotation
\* and a prediction of the same sample_name and class_id, and carries that
\* sample_name and class_id; boxes of different samples or classes are never
\* paired, whatever their IoU.
C21_PartitionIsolation ==
    Correlated =>
        \A i \in DOMAIN matching :
            matching[i].confusion = "tp" =>
                \E a \in Range(annotation_data), d \in Range(detection_data) :
                    /\ a.index = matching[i].annotation_index
                    /\ d.index = matching[i].detection_index
                    /\ SamePartition(d, a)
                    /\ matching[i].sample_name = a.sample_name
                    /\ matching[i].class_id = a.class_id

\* C21 witness: a prediction whose box coincides with an annotation of its own
\* partition and with one of another class of the same sample; the first pair
\* is a tp row, the second is in no row
C21_Witness ==
    /\ Correlated
    /\ \E d \in Range(detection_data), a, b \in Range(annotation_data) :
          /\ SamePartition(d, a)
          /\ b.sample_name = d.sample_name /\ b.class_id # d.class_id
          /\ a.center = d.center /\ b.center = d.center
          /\ TpRows(matching, d.index, a.index) = 1
          /\ TpRows(matching, d.index, b.index) = 0

\* ---- C22
\* the rows of a table with the given confusion
KindOf(df, c) == {i \in DOMAIN df : df[i].confusion = c}
TpAnnotations(df) == {df[i].annotation_index : i \in KindOf(df, "tp")}

\* the tables the exclusive policy can return for the tables and the
\* threshold and window of the correlator
ExclusiveOutcomes ==
    match("exclusive", annotation_data, detection_data,
          correlator.threshold, correlator.clip_x, correlator.clip_y)

\* the prediction confidences inside each (sample_name, class_id) partition
\* are distinct
DistinctConfidences ==
    \A d, e \in Range(detection_data) :
        (d # e /\ SamePartition(d, e)) => d.confidence # e.confidence

\* matching is the reduction of the complete-policy output of correlate
ReducedComplete ==
    Reduced /\ ops = 1 /\ correlator.matching_type = "complete"

\* C22: reduce_to_exclusive applied to the complete-policy output of correlate
\* has as many tp, fp and fn rows, and the same tp annotation indices, as the
\* exclusive-policy output of correlate for the same tables and threshold;
\* when the confidences inside each partition are distinct, both tables hold
\* the same rows.
C22_ReductionAgreesWithExclusive ==
    ReducedComplete =>
        \A exclusive \in ExclusiveOutcomes :
            /\ \A c \in {"tp", "fp", "fn"} :
                  Cardinality(KindOf(matching, c)) = Cardinality(KindOf(exclusive, c))
            /\ TpAnnotations(matching) = TpAnnotations(exclusive)
            /\ DistinctConfidences => SameRows(matching, exclusive)

\* C22 witness: two predictions of distinct confidence overlap one annotation
\* as two tp rows of the complete output; the reduction keeps one pair and
\* turns the other prediction into an fp row, as the exclusive policy does
C22_Witness ==
    /\ ReducedComplete
    /\ DistinctConfidences
    /\ Cardinality(KindOf(source, "tp")) = 2
    /\ Cardinality(KindOf(matching, "tp")) = 1
    /\ Cardinality(KindOf(matching, "fp")) = 1
    /\ \A exclusive \in ExclusiveOutcomes : SameRows(matching, exclusive)

\* ---- C23
\* t0 <= t1 for two thresholds given as fractions
ThresholdLeq(t0, t1) == t0[1] * t1[2] <= t1[1] * t0[2]

\* matching is apply_iou_threshold of the complete-policy output of correlate
IouAppliedToComplete ==
    IouApplied /\ ops = 1 /\ correlator.matching_type = "complete"

\* the tables the complete policy can return for the correlator's tables and
\* window with threshold t
CompleteOutcomes(t) ==
    match("complete", annotation_data, detection_data, t,
          correlator.clip_x, correlator.clip_y)

\* C23: for thresholds t0 <= t1, apply_iou_threshold with t1 of the
\* complete-policy output of correlate at t0 holds the same rows (tp, fp and
\* fn, with the same indices, class, match_value and confidence) as the
\* complete-policy output of correlate at t1.
C23_IouThresholdAgreesWithCorrelate ==
    (IouAppliedToComplete /\ ThresholdLeq(correlator.threshold, last_op.threshold)) =>
        \A complete \in CompleteOutcomes(last_op.threshold) : SameRows(matching, complete)

\* C23 witness: the threshold is raised from 0 to 1/2 on a table with a tp
\* row below 1/2 whose annotation and prediction have no other tp row: the
\* pair becomes an fp row and an fn row, as in the correlation at 1/2
C23_Witness ==
    /\ IouAppliedToComplete
    /\ correlator.threshold = <<0, 1>>
    /\ last_op.threshold = <<1, 2>>
    /\ \E r \in Range(source) :
          /\ r.confusion = "tp"
          /\ IouLt(r.match_value, <<1, 2>>)
          /\ FpRowsOfDet(matching, r.detection_index) = 1
          /\ FnRowsOfAnn(matching, r.annotation_index) = 1
    /\ \E r \in Range(matching) : r.confusion = "tp"
    /\ \A complete \in CompleteOutcomes(last_op.threshold) : SameRows(matching, complete)

\* ---- C24
TableOpApplied == Reduced \/ IouApplied \/ ConfidenceApplied

\* the tp rows carry a numeric match_value and a numeric confidence
NumericTp(df) ==
    \A i \in KindOf(df, "tp") : ~IsNaN(df[i].match_value) /\ df[i].confidence # NaNConf

\* the indices of the annotation table's rows of sample s
AnnotationsOfSample(s) == {a.index : a \in {b \in Range(annotation_data) : b.sample_name = s}}

\* C24: on a table whose tp rows have a numeric match_value and confidence,
\* reduce_to_exclusive, apply_iou_threshold and apply_confidence_threshold
\* leave the set of annotation indices of every sample unchanged; after any
\* sequence of them on an output of correlate every annotation index of the
\* correlation appears, in a tp or an fn row, and no other.
C24_GroundTruthConserved ==
    /\ (TableOpApplied /\ NumericTp(source)) =>
          \A s \in SamplesOf(source) \cup SamplesOf(matching) :
              AnnotationIdsOf(matching, s) = AnnotationIdsOf(source, s)
    /\ (Correlated \/ TableOpApplied) =>
          /\ \A s \in AnnotatedSamples \cup SamplesOf(matching) :
                AnnotationIdsOf(matching, s) = AnnotationsOfSample(s)
          /\ \A i \in DOMAIN matching :
                matching[i].annotation_index # None => matching[i].confusion \in {"tp", "fn"}

\* C24 witness: the second of two operations after correlate; the first
\* turned a tp row's annotation into an fn row, and both samples still list
\* their annotations
C24_Witness ==
    /\ TableOpApplied /\ ops = 2
    /\ NumericTp(source)
    /\ Cardinality(KindOf(source, "fn")) > 0
    /\ Cardinality(KindOf(matching, "fn")) > Cardinality(KindOf(source, "fn"))
    /\ Cardinality(SamplesOf(matching)) = 2
    /\ \A s \in SamplesOf(matching) : AnnotationIdsOf(matching, s) = AnnotationsOfSample(s)

\* ---- C25
\* the rows of the given kinds occur in df2 as often as in df1
PassedThrough(df1, df2, kinds) ==
    \A i \in DOMAIN df1 :
        df1[i].confusion \in kinds => Occurrences(df2, df1[i]) = Occurrences(df1, df1[i])

\* C25: reduce_to_exclusive and apply_iou_threshold carry every fp row and
\* every fn row of the input into the output with all fields unchanged, and
\* apply_confidence_threshold every fn row; none is dropped, duplicated or
\* reclassified.
C25_FpFnPassThrough ==
    /\ (Reduced \/ IouApplied) => PassedThrough(source, matching, {"fp", "fn"})
    /\ ConfidenceApplied => PassedThrough(source, matching, {"fn"})

\* C25 witness: apply_iou_threshold on a table with an fp row, an fn row and
\* a tp row that it turns into a new fp row and a new fn row
C25_Witness ==
    /\ IouApplied
    /\ Cardinality(KindOf(source, "fp")) > 0
    /\ Cardinality(KindOf(source, "fn")) > 0
    /\ Cardinality(KindOf(matching, "fp")) > Cardinality(KindOf(source, "fp"))
    /\ Cardinality(KindOf(matching, "fn")) > Cardinality(KindOf(source, "fn"))
    /\ PassedThrough(source, matching, {"fp", "fn"})

\* ---- C26
\* the rows of sample s, in their order
OfSample(df, s) == SelectSeq(df, LAMBDA r : r.sample_name = s)

\* the last operation, with its arguments, applied to another table
SameOperation(df) ==
    IF Reduced THEN reduce_to_exclusive(df, last_op.sort_output)
    ELSE IF IouApplied THEN apply_iou_threshold(df, last_op.threshold, last_op.sort_output)
    ELSE apply_confidence_threshold(df, last_op.confidence, last_op.sort_output)

\* C26: for reduce_to_exclusive, apply_iou_threshold and
\* apply_confidence_threshold, the output rows of a sample are the output of
\* the operation on that sample's input rows alone; rows of other samples do
\* not change them.
C26_SampleIndependence ==
    TableOpApplied =>
        \A s \in SamplesOf(source) \cup SamplesOf(matching) :
            OfSample(matching, s) = SameOperation(OfSample(source, s))

\* C26 witness: a reduction of a table in which two samples pair the same
\* annotation index with different detections: both tp rows are kept
C26_Witness ==
    /\ Reduced /\ ops = 1
    /\ Len(source) = 2
    /\ source[1].sample_name # source[2].sample_name
    /\ source[1].confusion = "tp" /\ source[2].confusion = "tp"
    /\ source[1].annotation_index = source[2].annotation_index
    /\ source[1].detection_index # source[2].detection_index
    /\ Cardinality(KindOf(matching, "tp")) = 2

\* ---- C27
\* the confidence thresholds a second call may raise the threshold to
ConfidenceRaises == {2, 3}

\* inside each sample all rows of one detection carry the same confidence
ConfidencePerDetection(df) ==
    \A i, j \in DOMAIN df :
        (/\ df[i].sample_name = df[j].sample_name
         /\ df[i].detection_index # None
         /\ df[i].detection_index = df[j].detection_index)
            => df[i].confidence = df[j].confidence

\* inside each sample all rows of one detection, and all rows of one
\* annotation, carry the same class_id
ClassPerIndex(df) ==
    \A i, j \in DOMAIN df :
        (/\ df[i].sample_name = df[j].sample_name
         /\ \/ (df[i].detection_index # None
                 /\ df[i].detection_index = df[j].detection_index)
            \/ (df[i].annotation_index # None
                 /\ df[i].annotation_index = df[j].annotation_index))
            => df[i].class_id = df[j].class_id

\* raising the threshold of the operation just applied to source, to any
\* y at or above it, gives the rows of applying y to source at once
StepwiseIsAtOnce ==
    /\ IouApplied =>
          \A y \in IouThresholds :
              ThresholdLeq(last_op.threshold, y) =>
                  SameRows(apply_iou_threshold(matching, y, last_op.sort_output),
                           apply_iou_threshold(source, y, last_op.sort_output))
    /\ ConfidenceApplied =>
          \A y \in ConfidenceRaises :
              last_op.confidence <= y =>
                  SameRows(apply_confidence_threshold(matching, y, last_op.sort_output),
                           apply_confidence_threshold(source, y, last_op.sort_output))

\* C27 as stated: for x <= y and every table whose confidence is the same in
\* all rows of one detection, applying the IoU threshold x and then y gives
\* the rows of applying y at once, and likewise for the confidence threshold.
C27_StepwiseForConsistentConfidence ==
    ConfidencePerDetection(source) => StepwiseIsAtOnce

\* C27 amended: the same for every table in which, inside each sample, all
\* rows of one detection carry the same confidence and all rows of one
\* detection or of one annotation carry the same class_id.
C27_StepwiseForConsistentRows ==
    (ConfidencePerDetection(source) /\ ClassPerIndex(source)) => StepwiseIsAtOnce

\* C27 witness: the IoU threshold 1/2 applied to two tp rows of one detection,
\* one below and one above 1/2: the first step discards one row, raising the
\* threshold to 1 discards the other and writes the detection's fp row
C27_Witness ==
    /\ IouApplied /\ ops = 1
    /\ last_op.threshold = <<1, 2>>
    /\ ConfidencePerDetection(source) /\ ClassPerIndex(source)
    /\ Len(source) = 2
    /\ source[1].confusion = "tp" /\ source[2].confusion = "tp"
    /\ source[1].sample_name = source[2].sample_name
    /\ source[1].detection_index = source[2].detection_index
    /\ source[1].annotation_index # source[2].annotation_index
    /\ IouLt(source[1].match_value, <<1, 2>>)
    /\ IouGeq(source[2].match_value, <<1, 2>>)
    /\ Cardinality(KindOf(matching, "tp")) = 1
    /\ Cardinality(KindOf(apply_iou_threshold(matching, <<1, 1>>, TRUE), "fp")) = 1
    /\ SameRows(apply_iou_threshold(matching, <<1, 1>>, TRUE),
                apply_iou_threshold(source, <<1, 1>>, TRUE))

\* ---- C28
\* the sort key of a row: class_id, then tp before fp before fn, then the
\* annotation index, then the detection index, a null index after every other
ConfusionRank(c) == IF c = "tp" THEN 1 ELSE IF c = "fp" THEN 2 ELSE 3
IndexRank(x) == IF x = None THEN Len(StrOrder) + 1 ELSE StrRank(x)
RowKey(r) ==
    <<StrRank(r.class_id), ConfusionRank(r.confusion),
      IndexRank(r.annotation_index), IndexRank(r.detection_index)>>

\* lexicographic k1 <= k2
KeyLeq(k1, k2) ==
    \/ k1 = k2
    \/ \E n \in 1..4 : k1[n] < k2[n] /\ \A m \in 1..(n - 1) : k1[m] = k2[m]

\* C28: with sort_output true, the output of reduce_to_exclusive,
\* apply_iou_threshold and apply_confidence_threshold lists the samples in
\* ascending sample_name and, inside a sample, the rows by class_id ascending,
\* then tp before fp before fn, then annotation_index ascending, then
\* detection_index ascending, null indices last.
C28_OutputOrder ==
    (TableOpApplied /\ last_op.sort_output) =>
        \A i, j \in DOMAIN matching :
            i < j =>
              /\ ~StrLess(matching[j].sample_name, matching[i].sample_name)
              /\ matching[i].sample_name = matching[j].sample_name
                    => KeyLeq(RowKey(matching[i]), RowKey(matching[j]))

\* C28 witness: a sorted output whose first three rows are a tp row, an fp
\* row and an fn row of one sample and class, the fp and fn row written by
\* the operation
C28_Witness ==
    /\ TableOpApplied /\ last_op.sort_output
    /\ Len(matching) >= 3
    /\ matching[1].sample_name = matching[3].sample_name
    /\ matching[1].class_id = matching[3].class_id
    /\ matching[1].confusion = "tp"
    /\ matching[2].confusion = "fp"
    /\ matching[3].confusion = "fn"
    /\ Cardinality(KindOf(source, "fp")) = 0
    /\ Cardinality(KindOf(source, "fn")) = 0

\* ---- C29
\* the value of the correlator's confidence column in the prediction with
\* index d
ConfidenceColOf(d) ==
    LET row == CHOOSE r \in Range(detection_data) : r.index = d
    IN  row[correlator._confidence_col]

\* C29 as stated: a correlator constructed with confidence_col = X reads each
\* prediction's confidence from column X: the tp and fp rows carry the value
\* of column X, and under the exclusive policy an annotation claimed by two
\* predictions goes to one whose value in column X is not the smaller.
C29_ConfidenceColHonoured ==
    Correlated =>
        /\ \A i \in DOMAIN matching :
              matching[i].confusion \in {"tp", "fp"}
                  => matching[i].confidence = ConfidenceColOf(matching[i].detection_index)
        /\ correlator.matching_type = "exclusive" =>
              \A d, e \in Range(detection_data), a \in Range(annotation_data) :
                  (/\ TpRows(matching, d.index, a.index) = 1
                   /\ IsBestAnn(e, a)
                   /\ IouGeq(Iou(e, a), correlator.threshold))
                      => ConfidenceColOf(d.index) >= ConfidenceColOf(e.index)

\* C29, what the code does: whatever confidence_col the correlator was
\* constructed with, the tp and fp rows carry the prediction's value of the
\* column "confidence".
C29_ConfidenceReadFromDefaultColumn ==
    Correlated =>
        \A i \in DOMAIN matching :
            matching[i].confusion \in {"tp", "fp"} =>
                \E d \in Range(detection_data) :
                    /\ d.index = matching[i].detection_index
                    /\ matching[i].confidence = d.confidence

\* C29 witness: a correlator constructed with confidence_col = "score" has
\* correlated a prediction whose score differs from its confidence, and the
\* prediction's tp row carries the confidence
C29_Witness ==
    /\ Correlated
    /\ correlator._confidence_col = "score"
    /\ \E d \in Range(detection_data), i \in DOMAIN matching :
          /\ d.score # d.confidence
          /\ matching[i].detection_index = d.index
          /\ matching[i].confusion = "tp"
          /\ matching[i].confidence = d.confidence

\* ---- C30
\* the interval [lo, hi] of a box lies left of, or right of, the clip
\* interval clip and the clipped interval [lo2, hi2] is the nearest clip edge
PinnedToEdge(lo, hi, clip, lo2, hi2) ==
    /\ (clip[1].kind = "fin" /\ hi < clip[1].v) => (lo2 = clip[1].v /\ hi2 = clip[1].v)
    /\ (clip[2].kind = "fin" /\ lo > clip[2].v) => (lo2 = clip[2].v /\ hi2 = clip[2].v)

====
